---- MODULE Spec2Model ----
(***************************************************************************)
(* A model of the C front end of CToRustTool: the tokenizer                *)
(* (src/src/lexer.rs) and the recursive-descent parser                     *)
(* (src/src/parser.rs) building the AST of src/src/ast.rs.                 *)
(*                                                                         *)
(* The state machine takes one step per iteration of Lexer::tokenize's     *)
(* loop (one call of next_token) and then one step per iteration of        *)
(* Parser::parse_program's loop (one call of parse_declaration).  The      *)
(* routines below the two loops are operators that thread the parser       *)
(* state (pos, typedef_names) through their results, as the code threads   *)
(* &mut self.                                                              *)
(***************************************************************************)
EXTENDS Integers, Sequences, FiniteSets, TLC

VARIABLES
    input,          \* Lexer.input: the source text, a sequence of characters
    lex_pos,        \* Lexer.pos
    tokens,         \* the Vec<Token> tokenize builds, then Parser.tokens
    pos,            \* Parser.pos
    typedef_names,  \* Parser.typedef_names
    declarations,   \* parse_program's local Vec<Declaration>
    starts,         \* history: for each token pushed, Lexer.pos where it starts
    status,         \* "lexing", "parsing", "ok", "err" or "panic"
    error           \* the Err value parse_program returned, or NoError

vars == <<input, lex_pos, tokens, starts, pos, typedef_names, declarations, status, error>>

(***************************************************************************)
(* Characters                                                              *)
(***************************************************************************)
Digits == <<"0", "1", "2", "3", "4", "5", "6", "7", "8", "9">>

DigitSet == {Digits[i] : i \in 1..10}

LowerSet == {"a", "b", "c", "d", "e", "f", "g", "h", "i", "j", "k", "l", "m",
             "n", "o", "p", "q", "r", "s", "t", "u", "v", "w", "x", "y", "z"}

UpperSet == {"A", "B", "C", "D", "E", "F", "G", "H", "I", "J", "K", "L", "M",
             "N", "O", "P", "Q", "R", "S", "T", "U", "V", "W", "X", "Y", "Z"}

\* Option<char>::None
NoChar == ""

\* the character literal '\0'
NulChar == "NUL"

is_whitespace(ch) == ch \in {" ", "\n", "\t", "\r"}

is_numeric(ch) == ch \in DigitSet

is_alphabetic(ch) == ch \in LowerSet \cup UpperSet

is_alphanumeric(ch) == is_alphabetic(ch) \/ is_numeric(ch)

DigitValue(ch) == CHOOSE d \in 0..9 : Digits[d + 1] = ch

(***************************************************************************)
(* Tokens                                                                  *)
(***************************************************************************)
Tk(tag) == [t |-> tag]

TkIdentifier(name) == [t |-> "Identifier", s |-> name]

TkIntLiteral(n) == [t |-> "IntLiteral", n |-> n]

TkFloatLiteral(f) == [t |-> "FloatLiteral", f |-> f]

TkCharLiteral(c) == [t |-> "CharLiteral", s |-> c]

TkStringLiteral(str) == [t |-> "StringLiteral", s |-> str]

Eof == Tk("Eof")

\* the keyword table of read_identifier
Keywords ==
    ("int" :> "Int") @@ ("char" :> "Char") @@ ("float" :> "Float") @@
    ("double" :> "Double") @@ ("void" :> "Void") @@ ("long" :> "Long") @@
    ("short" :> "Short") @@ ("unsigned" :> "Unsigned") @@ ("signed" :> "Signed") @@
    ("struct" :> "Struct") @@ ("union" :> "Union") @@ ("enum" :> "Enum") @@
    ("typedef" :> "Typedef") @@ ("const" :> "Const") @@ ("volatile" :> "Volatile") @@
    ("static" :> "Static") @@ ("extern" :> "Extern") @@ ("auto" :> "Auto") @@
    ("register" :> "Register") @@
    ("if" :> "If") @@ ("else" :> "Else") @@ ("while" :> "While") @@ ("do" :> "Do") @@
    ("for" :> "For") @@ ("switch" :> "Switch") @@ ("case" :> "Case") @@
    ("default" :> "Default") @@ ("break" :> "Break") @@ ("continue" :> "Continue") @@
    ("return" :> "Return") @@ ("goto" :> "Goto") @@
    ("sizeof" :> "Sizeof")

(***************************************************************************)
(* Lexer.  Every routine takes the input and Lexer.pos and returns the     *)
(* token with the new Lexer.pos.                                           *)
(***************************************************************************)
current_char(inp, p) == IF p < Len(inp) THEN inp[p + 1] ELSE NoChar

RECURSIVE skip_whitespace(_, _)
skip_whitespace(inp, p) ==
    IF is_whitespace(current_char(inp, p)) THEN skip_whitespace(inp, p + 1) ELSE p

\* i32::MAX: the largest value str::parse::<i32> accepts
I32Max == 2147483647

RECURSIVE DecimalValue(_)
DecimalValue(ds) ==
    IF ds = <<>> THEN 0
    ELSE 10 * DecimalValue(SubSeq(ds, 1, Len(ds) - 1)) + DigitValue(ds[Len(ds)])

RECURSIVE StripTrailingZeros(_)
StripTrailingZeros(ds) ==
    IF ds # <<>> /\ ds[Len(ds)] = "0"
    THEN StripTrailingZeros(SubSeq(ds, 1, Len(ds) - 1))
    ELSE ds

\* str::parse::<f64> of digits [. digits]: the decimal value, kept as its
\* whole part and its significant fraction digits
ParseF64(num_str) ==
    LET dot == CHOOSE i \in 1..Len(num_str) : num_str[i] = "."
    IN  [whole |-> DecimalValue(SubSeq(num_str, 1, dot - 1)),
         frac |-> StripTrailingZeros(SubSeq(num_str, dot + 1, Len(num_str)))]

\* str::parse::<i32> of a digit run, digit by digit from acc: Err when the
\* value passes i32::MAX (the checked multiply and add of the standard library)
RECURSIVE ParseI32(_, _)
ParseI32(ds, acc) ==
    IF ds = <<>> THEN [ok |-> TRUE, val |-> acc]
    ELSE LET d == DigitValue(Head(ds))
         IN  IF acc > (I32Max - d) \div 10
             THEN [ok |-> FALSE]
             ELSE ParseI32(Tail(ds), 10 * acc + d)

\* the while loop of read_number
RECURSIVE read_number_loop(_, _, _, _)
read_number_loop(inp, p, num_str, is_float) ==
    LET ch == current_char(inp, p)
    IN  IF is_numeric(ch) THEN read_number_loop(inp, p + 1, Append(num_str, ch), is_float)
        ELSE IF ch = "." /\ ~is_float THEN read_number_loop(inp, p + 1, Append(num_str, ch), TRUE)
        ELSE [num_str |-> num_str, is_float |-> is_float, pos |-> p]

read_number(inp, p) ==
    LET r == read_number_loop(inp, p, <<>>, FALSE)
    IN  IF r.is_float
        THEN [tok |-> TkFloatLiteral(ParseF64(r.num_str)), pos |-> r.pos, panic |-> FALSE]
        ELSE LET n == ParseI32(r.num_str, 0)
             IN  IF ~n.ok
                 THEN [tok |-> Eof, pos |-> r.pos, panic |-> TRUE]
                 ELSE [tok |-> TkIntLiteral(n.val), pos |-> r.pos, panic |-> FALSE]

\* the while loop of read_identifier
RECURSIVE read_identifier_loop(_, _, _)
read_identifier_loop(inp, p, ident) ==
    LET ch == current_char(inp, p)
    IN  IF is_alphanumeric(ch) \/ ch = "_"
        THEN read_identifier_loop(inp, p + 1, ident \o ch)
        ELSE [ident |-> ident, pos |-> p]

read_identifier(inp, p) ==
    LET r == read_identifier_loop(inp, p, "")
    IN  [tok |-> IF r.ident \in DOMAIN Keywords THEN Tk(Keywords[r.ident])
                 ELSE TkIdentifier(r.ident),
         pos |-> r.pos, panic |-> FALSE]

\* the escape table of read_string
StringEscape(escaped) ==
    CASE escaped = "n" -> "\n"
      [] escaped = "t" -> "\t"
      [] OTHER -> escaped

\* the while loop of read_string
RECURSIVE read_string_loop(_, _, _)
read_string_loop(inp, p, string) ==
    LET ch == current_char(inp, p)
    IN  IF ch = NoChar THEN [string |-> string, pos |-> p]
        ELSE IF ch = "\"" THEN [string |-> string, pos |-> p + 1]
        ELSE IF ch = "\\"
        THEN LET escaped == current_char(inp, p + 1)
             IN  IF escaped # NoChar
                 THEN read_string_loop(inp, p + 2, string \o StringEscape(escaped))
                 ELSE read_string_loop(inp, p + 1, string)
        ELSE read_string_loop(inp, p + 1, string \o ch)

read_string(inp, p) ==
    LET r == read_string_loop(inp, p + 1, "")
    IN  [tok |-> TkStringLiteral(r.string), pos |-> r.pos, panic |-> FALSE]

read_char(inp, p) ==
    LET c == current_char(inp, p + 1)
        ch == IF c = NoChar THEN NulChar ELSE c
    IN  [tok |-> TkCharLiteral(ch),
         pos |-> IF current_char(inp, p + 2) = "'" THEN p + 3 ELSE p + 2,
         panic |-> FALSE]

\* a token that takes one character whatever its length
Op_one_char(tag, p, n) == [tok |-> Tk(tag), pos |-> p + 1, panic |-> FALSE]

\* a token of n characters starting at p
Op(tag, p, n) == [tok |-> Tk(tag), pos |-> p + n, panic |-> FALSE]

\* the single-character punctuation arms of next_token
Punctuation ==
    ("(" :> "LParen") @@ (")" :> "RParen") @@ ("{" :> "LBrace") @@ ("}" :> "RBrace") @@
    ("[" :> "LBracket") @@ ("]" :> "RBracket") @@ (";" :> "Semicolon") @@
    ("," :> "Comma") @@ ("." :> "Dot") @@ ("?" :> "Question") @@ (":" :> "Colon") @@
    ("~" :> "BitNot")

\* the arm of next_token for a character that starts no token
unrecognized_char(p) == Op("Eof", p, 1)

\* the operator and punctuation arms of next_token, at a non-blank character
\* ch = inp[p + 1] that starts neither a number nor an identifier
next_operator(inp, p, ch) ==
    LET c1 == current_char(inp, p + 1)
        c2 == current_char(inp, p + 2)
    IN  CASE ch = "+" -> (CASE c1 = "+" -> Op("Increment", p, 2)
                            [] c1 = "=" -> Op("PlusAssign", p, 2)
                            [] OTHER -> Op("Plus", p, 1))
          [] ch = "-" -> (CASE c1 = "-" -> Op("Decrement", p, 2)
                            [] c1 = "=" -> Op("MinusAssign", p, 2)
                            [] c1 = ">" -> Op("Arrow", p, 2)
                            [] OTHER -> Op("Minus", p, 1))
          [] ch = "*" -> IF c1 = "=" THEN Op("StarAssign", p, 2) ELSE Op("Star", p, 1)
          [] ch = "/" -> IF c1 = "=" THEN Op("SlashAssign", p, 2) ELSE Op("Slash", p, 1)
          [] ch = "%" -> IF c1 = "=" THEN Op("PercentAssign", p, 2) ELSE Op("Percent", p, 1)
          [] ch \in DOMAIN Punctuation -> Op(Punctuation[ch], p, 1)
          [] ch = "&" -> (CASE c1 = "&" -> Op("And", p, 2)
                            [] c1 = "=" -> Op("AndAssign", p, 2)
                            [] OTHER -> Op("Ampersand", p, 1))
          [] ch = "|" -> (CASE c1 = "|" -> Op("Or", p, 2)
                            [] c1 = "=" -> Op("OrAssign", p, 2)
                            [] OTHER -> Op("BitOr", p, 1))
          [] ch = "^" -> IF c1 = "=" THEN Op("XorAssign", p, 2) ELSE Op("BitXor", p, 1)
          [] ch = "!" -> IF c1 = "=" THEN Op("Ne", p, 2) ELSE Op("Not", p, 1)
          [] ch = "=" -> IF c1 = "=" THEN Op("Eq", p, 2) ELSE Op("Assign", p, 1)
          [] ch = "<" -> (CASE c1 = "=" -> Op("Le", p, 2)
                            [] c1 = "<" -> (IF c2 = "=" THEN Op("LeftShiftAssign", p, 3)
                                            ELSE Op("LeftShift", p, 2))
                            [] OTHER -> Op("Lt", p, 1))
          [] ch = ">" -> (CASE c1 = "=" -> Op("Ge", p, 2)
                            [] c1 = ">" -> (IF c2 = "=" THEN Op("RightShiftAssign", p, 3)
                                            ELSE Op("RightShift", p, 2))
                            [] OTHER -> Op("Gt", p, 1))
          [] ch = "\"" -> read_string(inp, p)
          [] ch = "'" -> read_char(inp, p)
          [] OTHER -> unrecognized_char(p)

\* returns the token, Lexer.pos after it, and where the token starts (the
\* position skip_whitespace leaves)
next_token(inp, p0) ==
    LET p == skip_whitespace(inp, p0)
        ch == current_char(inp, p)
        r == IF ch = NoChar THEN [tok |-> Eof, pos |-> p, panic |-> FALSE]
             ELSE IF is_numeric(ch) THEN read_number(inp, p)
             ELSE IF is_alphabetic(ch) \/ ch = "_" THEN read_identifier(inp, p)
             ELSE next_operator(inp, p, ch)
    IN  [tok |-> r.tok, pos |-> r.pos, panic |-> r.panic, start |-> p]

\* the end-of-input marker not pushed
tokenize_push_no_eof(toks, token) == IF token = Eof THEN toks ELSE Append(toks, token)

\* the two pushes of tokenize: every token is pushed, Eof included
tokenize_push(toks, token) == Append(toks, token)

(***************************************************************************)
(* AST (src/src/ast.rs)                                                    *)
(***************************************************************************)
None == [some |-> FALSE]

Some(v) == [some |-> TRUE, v |-> v]

\* the unit CType variants: Int, Char, ..., SignedChar
Ty(k) == [k |-> k]

Pointer(inner) == [k |-> "Pointer", inner |-> inner]

Array(element_type, size) == [k |-> "Array", element_type |-> element_type, size |-> size]

FunctionType(return_type, params) ==
    [k |-> "Function", return_type |-> return_type, params |-> params]

\* CType::Struct(name), Union(name), Enum(name), Typedef(name)
Named(k, name) == [k |-> k, name |-> name]

Const(inner) == [k |-> "Const", inner |-> inner]

Volatile(inner) == [k |-> "Volatile", inner |-> inner]

(***************************************************************************)
(* Parser: results.  A routine returns Ok(value) or Err(error) together    *)
(* with Parser.pos as the routine leaves it.                               *)
(***************************************************************************)
NoTok == Tk("None")

NoError == [msg |-> "", expected |-> NoTok, got |-> NoTok]

\* Err("...".to_string())
ErrMsg(msg) == [msg |-> msg, expected |-> NoTok, got |-> NoTok]

\* Err(format!("..., got {:?}", token))
ErrGot(msg, got) == [msg |-> msg, expected |-> NoTok, got |-> got]

\* Err(format!("Expected {:?}, got {:?}", expected, token))
ErrExpected(expected, got) == [msg |-> "Expected", expected |-> expected, got |-> got]

Ok(val, p) == [ok |-> TRUE, val |-> val, pos |-> p]

Err(e, p) == [ok |-> FALSE, err |-> e, pos |-> p]

Unit == "()"

current_token(p) == IF p < Len(tokens) THEN tokens[p + 1] ELSE Eof

advance(p) == IF p < Len(tokens) THEN p + 1 ELSE p

\* expect consuming the token it rejects
expect_consuming(expected, p) ==
    IF current_token(p) = expected
    THEN Ok(Unit, advance(p))
    ELSE Err(ErrExpected(expected, current_token(p)), advance(p))

expect(expected, p) ==
    IF current_token(p) = expected
    THEN Ok(Unit, advance(p))
    ELSE Err(ErrExpected(expected, current_token(p)), p)

\* A call of a method of Parser that is made before the method is defined
\* here (the methods are mutually recursive): the call names the method, and
\* call, which is defined after all of them, dispatches to it.
RECURSIVE call(_, _)

\* The `?` on the first call of a method and the rest of the method, which
\* runs on the value that call returned: an Err is returned as it is.
and_then(r, rest, td) == IF r.ok THEN call(rest, <<r.pos, td, r.val>>) ELSE r

\* the loop of skip_brace_block stopping at the first '}' it meets
skip_brace_loop_flat(p, depth) ==
    IF depth > 0
    THEN CASE current_token(p).t = "RBrace" -> advance(p)
           [] current_token(p).t = "Eof" -> p
           [] OTHER -> call("skip_brace_loop", <<advance(p), depth>>)
    ELSE p

\* the while loop of skip_brace_block
skip_brace_loop(p, depth) ==
    IF depth > 0
    THEN CASE current_token(p).t = "LBrace" -> call("skip_brace_loop", <<advance(p), depth + 1>>)
           [] current_token(p).t = "RBrace" -> call("skip_brace_loop", <<advance(p), depth - 1>>)
           [] current_token(p).t = "Eof" -> p
           [] OTHER -> call("skip_brace_loop", <<advance(p), depth>>)
    ELSE p

skip_brace_block(p) ==
    LET e == expect(Tk("LBrace"), p)
    IN  IF ~e.ok THEN e ELSE Ok(Unit, call("skip_brace_loop", <<e.pos, 1>>))

(***************************************************************************)
(* Parser: type-specifier resolution (parse_type)                          *)
(***************************************************************************)
\* the storage-class loop of parse_type
skip_storage_class(p) ==
    IF current_token(p).t \in {"Static", "Extern", "Auto", "Register"}
    THEN call("skip_storage_class", <<advance(p)>>)
    ELSE p

\* the locals of parse_type before its specifier loop
InitFlags ==
    [is_const |-> FALSE, is_volatile |-> FALSE, is_unsigned |-> FALSE,
     is_signed |-> FALSE, saw_char |-> FALSE, saw_float |-> FALSE,
     saw_double |-> FALSE, saw_void |-> FALSE, long_count |-> 0,
     saw_short |-> FALSE, base_type |-> None, consumed_any |-> FALSE]

\* u8::saturating_add(1)
saturating_add(n) == IF n < 255 THEN n + 1 ELSE n

\* what the keyword arms of the specifier loop do to the locals
keyword_flag(f, tag) ==
    CASE tag = "Const" -> [f EXCEPT !.is_const = TRUE, !.consumed_any = TRUE]
      [] tag = "Volatile" -> [f EXCEPT !.is_volatile = TRUE, !.consumed_any = TRUE]
      [] tag = "Unsigned" -> [f EXCEPT !.is_unsigned = TRUE, !.consumed_any = TRUE]
      [] tag = "Signed" -> [f EXCEPT !.is_signed = TRUE, !.consumed_any = TRUE]
      [] tag = "Long" -> [f EXCEPT !.long_count = saturating_add(@), !.consumed_any = TRUE]
      [] tag = "Short" -> [f EXCEPT !.saw_short = TRUE, !.consumed_any = TRUE]
      [] tag = "Int" -> [f EXCEPT !.consumed_any = TRUE]
      [] tag = "Char" -> [f EXCEPT !.saw_char = TRUE, !.consumed_any = TRUE]
      [] tag = "Float" -> [f EXCEPT !.saw_float = TRUE, !.consumed_any = TRUE]
      [] tag = "Double" -> [f EXCEPT !.saw_double = TRUE, !.consumed_any = TRUE]
      [] tag = "Void" -> [f EXCEPT !.saw_void = TRUE, !.consumed_any = TRUE]

SpecifierKeywords ==
    {"Const", "Volatile", "Unsigned", "Signed", "Long", "Short", "Int", "Char",
     "Float", "Double", "Void"}

\* the Identifier arm taking no identifier for a type
is_typedef_name_never(tok, td) == FALSE

\* the Identifier arm taking every identifier for a type
is_typedef_name_any(tok, td) == tok.t = "Identifier"

\* the Identifier arm of the specifier loop: is the identifier consumed as a type?
is_typedef_name(tok, td) == tok.t = "Identifier" /\ tok.s \in td

\* the specifier loop of parse_type
parse_type_loop(p, td, f) ==
    LET tok == current_token(p)
    IN  CASE tok.t \in SpecifierKeywords ->
                call("parse_type_loop", <<advance(p), td, keyword_flag(f, tok.t)>>)
          [] tok.t \in {"Struct", "Union", "Enum"} ->
                LET p1 == advance(p)
                    nxt == current_token(p1)
                IN  CASE nxt.t = "Identifier" ->
                            call("parse_type_loop",
                                 <<advance(p1), td, [f EXCEPT !.base_type = Some(Named(tok.t, nxt.s)), !.consumed_any = TRUE]>>)
                      [] nxt.t = "LBrace" ->
                            LET sk == call("skip_brace_block", <<p1>>)
                            IN  IF ~sk.ok THEN sk
                                ELSE call("parse_type_loop",
                                          <<sk.pos, td, [f EXCEPT !.base_type = Some(Named(tok.t, "")), !.consumed_any = TRUE]>>)
                      [] OTHER ->
                            Err(ErrMsg(CASE tok.t = "Struct" -> "Expected struct name"
                                         [] tok.t = "Union" -> "Expected union name"
                                         [] tok.t = "Enum" -> "Expected enum name"), p1)
          [] is_typedef_name(tok, td) ->
                call("parse_type_loop",
                     <<advance(p), td, [f EXCEPT !.base_type = Some(Named("Typedef", tok.s)), !.consumed_any = TRUE]>>)
          [] OTHER -> [ok |-> TRUE, f |-> f, pos |-> p]

\* the normalisation with long tested before short
resolve_type_long_first(f) ==
    IF f.base_type.some THEN f.base_type.v
    ELSE IF f.saw_char
    THEN (IF f.is_unsigned THEN Ty("UnsignedChar")
          ELSE IF f.is_signed THEN Ty("SignedChar")
          ELSE Ty("Char"))
    ELSE IF f.saw_double THEN Ty("Double")
    ELSE IF f.saw_float THEN Ty("Float")
    ELSE IF f.saw_void THEN Ty("Void")
    ELSE IF f.long_count > 0
    THEN (IF f.is_unsigned THEN Ty("UnsignedLong") ELSE Ty("Long"))
    ELSE IF f.saw_short
    THEN (IF f.is_unsigned THEN Ty("UnsignedShort") ELSE Ty("Short"))
    ELSE IF f.is_unsigned THEN Ty("UnsignedInt")
    ELSE IF f.is_signed THEN Ty("SignedInt")
    ELSE Ty("Int")

\* the normalisation of the collected flags into a base CType
resolve_type(f) ==
    IF f.base_type.some THEN f.base_type.v
    ELSE IF f.saw_char
    THEN (IF f.is_unsigned THEN Ty("UnsignedChar")
          ELSE IF f.is_signed THEN Ty("SignedChar")
          ELSE Ty("Char"))
    ELSE IF f.saw_double THEN Ty("Double")
    ELSE IF f.saw_float THEN Ty("Float")
    ELSE IF f.saw_void THEN Ty("Void")
    ELSE IF f.saw_short
    THEN (IF f.is_unsigned THEN Ty("UnsignedShort") ELSE Ty("Short"))
    ELSE IF f.long_count > 0
    THEN (IF f.is_unsigned THEN Ty("UnsignedLong") ELSE Ty("Long"))
    ELSE IF f.is_unsigned THEN Ty("UnsignedInt")
    ELSE IF f.is_signed THEN Ty("SignedInt")
    ELSE Ty("Int")

\* parse_type leaving the stars to the declarator
type_pointer_stars_left(p, typ) == [val |-> typ, pos |-> p]

\* the pointer-star loop of parse_type
type_pointer_stars(p, typ) ==
    IF current_token(p) = Tk("Star")
    THEN call("type_pointer_stars", <<advance(p), Pointer(typ)>>)
    ELSE [val |-> typ, pos |-> p]

\* the const/volatile wrapping at the end of parse_type
apply_qualifiers(f, typ) ==
    LET c == IF f.is_const THEN Const(typ) ELSE typ
    IN  IF f.is_volatile THEN Volatile(c) ELSE c

\* parse_type without its consumed_any check
parse_type_unchecked(p0, td) ==
    LET r == call("parse_type_loop", <<call("skip_storage_class", <<p0>>), td, InitFlags>>)
    IN  IF ~r.ok THEN r
        ELSE LET s == call("type_pointer_stars", <<r.pos, resolve_type(r.f)>>)
             IN  Ok(apply_qualifiers(r.f, s.val), s.pos)

parse_type(p0, td) ==
    LET r == call("parse_type_loop", <<call("skip_storage_class", <<p0>>), td, InitFlags>>)
    IN  IF ~r.ok THEN r
        ELSE IF ~r.f.consumed_any
        THEN Err(ErrGot("Expected type", current_token(r.pos)), r.pos)
        ELSE LET s == call("type_pointer_stars", <<r.pos, resolve_type(r.f)>>)
             IN  Ok(apply_qualifiers(r.f, s.val), s.pos)

(***************************************************************************)
(* Parser: declarators (parse_declarator, parse_declarator_suffix)         *)
(***************************************************************************)
\* the parameter loop inside the LParen arm of parse_declarator_suffix
parse_param_types(p, td, params) ==
    IF current_token(p) = Tk("Ellipsis")
    THEN Ok(params, advance(p))
    ELSE LET pty == call("parse_type", <<p, td>>)
         IN  IF ~pty.ok THEN pty
             ELSE LET p1 == IF current_token(pty.pos).t = "Identifier"
                            THEN advance(pty.pos) ELSE pty.pos
                      ps == Append(params, pty.val)
                  IN  IF current_token(p1) = Tk("Comma")
                      THEN call("parse_param_types", <<advance(p1), td, ps>>)
                      ELSE Ok(ps, p1)

\* the type an array suffix builds around the declarator's type so far
array_suffix_type(base, size) == Array(base, size)

\* the parameter types dropped from the function type
function_suffix_type_no_params(base, params) == FunctionType(base, <<>>)

\* the type a parameter-list suffix builds around the declarator's type so far
function_suffix_type(base, params) == FunctionType(base, params)

parse_declarator_suffix(p, td, base) ==
    CASE current_token(p).t = "LBracket" ->
            LET p1 == advance(p)
                lit == current_token(p1).t = "IntLiteral"
                size == IF lit THEN Some(current_token(p1).n) ELSE None
                e == expect(Tk("RBracket"), IF lit THEN advance(p1) ELSE p1)
            IN  IF ~e.ok THEN e
                ELSE call("parse_declarator_suffix", <<e.pos, td, array_suffix_type(base, size)>>)
      [] current_token(p).t = "LParen" ->
            LET p1 == advance(p)
                ps == IF current_token(p1) # Tk("RParen")
                      THEN call("parse_param_types", <<p1, td, <<>>>>)
                      ELSE Ok(<<>>, p1)
            IN  IF ~ps.ok THEN ps
                ELSE LET e == expect(Tk("RParen"), ps.pos)
                     IN  IF ~e.ok THEN e
                         ELSE call("parse_declarator_suffix",
                                   <<e.pos, td, function_suffix_type(base, ps.val)>>)
      [] OTHER -> Ok(base, p)

\* the pointer-prefix loop of parse_declarator
declarator_pointer_prefix(p, ty) ==
    IF current_token(p) = Tk("Star")
    THEN call("declarator_pointer_prefix", <<advance(p), Pointer(ty)>>)
    ELSE [val |-> ty, pos |-> p]

\* returns (name, type) as [name, ty]
parse_declarator(p, td, base) ==
    LET pre == call("declarator_pointer_prefix", <<p, base>>)
        tok == current_token(pre.pos)
        direct ==
            CASE tok.t = "Identifier" ->
                    Ok([name |-> tok.s, ty |-> pre.val], advance(pre.pos))
              [] tok.t = "LParen" ->
                    LET inner == call("parse_declarator", <<advance(pre.pos), td, pre.val>>)
                    IN  IF ~inner.ok THEN inner
                        ELSE LET e == expect(Tk("RParen"), inner.pos)
                             IN  IF ~e.ok THEN e ELSE Ok(inner.val, e.pos)
              [] OTHER -> Err(ErrGot("Expected typedef name", tok), pre.pos)
    IN  IF ~direct.ok THEN direct
        ELSE LET sfx == call("parse_declarator_suffix", <<direct.pos, td, direct.val.ty>>)
             IN  IF ~sfx.ok THEN sfx
                 ELSE Ok([name |-> direct.val.name, ty |-> sfx.val], sfx.pos)

(***************************************************************************)
(* Expr (src/src/ast.rs)                                                   *)
(***************************************************************************)
IntLiteral(n) == [k |-> "IntLiteral", n |-> n]

FloatLiteral(f) == [k |-> "FloatLiteral", f |-> f]

CharLiteral(c) == [k |-> "CharLiteral", s |-> c]

StringLiteral(str) == [k |-> "StringLiteral", s |-> str]

Identifier(name) == [k |-> "Identifier", name |-> name]

Binary(op, left, right) == [k |-> "Binary", op |-> op, left |-> left, right |-> right]

Unary(op, operand) == [k |-> "Unary", op |-> op, operand |-> operand]

Call(func, args) == [k |-> "Call", func |-> func, args |-> args]

Assignment(target, value) == [k |-> "Assignment", target |-> target, value |-> value]

Cast(typ, expr) == [k |-> "Cast", typ |-> typ, expr |-> expr]

ArrayAccess(array, index) == [k |-> "ArrayAccess", array |-> array, index |-> index]

MemberAccess(object, member) == [k |-> "MemberAccess", object |-> object, member |-> member]

PointerMemberAccess(object, member) ==
    [k |-> "PointerMemberAccess", object |-> object, member |-> member]

Ternary(cond, then_expr, else_expr) ==
    [k |-> "Ternary", cond |-> cond, then_expr |-> then_expr, else_expr |-> else_expr]

SizeOf(typ) == [k |-> "SizeOf", typ |-> typ]

Null == [k |-> "Null"]

(***************************************************************************)
(* Parser: expressions                                                     *)
(***************************************************************************)

is_type_keyword(p) ==
    current_token(p).t \in
        {"Int", "Char", "Float", "Double", "Void", "Long", "Short", "Unsigned",
         "Signed", "Const", "Volatile", "Struct", "Union", "Enum"}

\* the type branch taken on type keywords alone, the typedef set not consulted
starts_type_keyword_only(p, td) == is_type_keyword(p)

\* the test that sends '(' and 'sizeof (' to the type branch
starts_type(p, td) == is_type_keyword(p) \/ is_typedef_name(current_token(p), td)

\* the adjacent-string-literal loop of parse_primary
concat_string_literals(p, acc) ==
    IF current_token(p).t = "StringLiteral"
    THEN call("concat_string_literals", <<advance(p), acc \o current_token(p).s>>)
    ELSE [val |-> acc, pos |-> p]

\* the comma loop over the remaining call arguments
parse_call_args(p, td, args) ==
    IF current_token(p) = Tk("Comma")
    THEN LET a == call("parse_expr", <<advance(p), td>>)
         IN  IF ~a.ok THEN a ELSE call("parse_call_args", <<a.pos, td, Append(args, a.val)>>)
    ELSE Ok(args, p)

\* the Identifier arm of parse_primary, after the identifier is consumed
parse_identifier_or_call(name, p, td) ==
    IF current_token(p) = Tk("LParen")
    THEN LET p1 == advance(p)
             args ==
                 IF current_token(p1) # Tk("RParen")
                 THEN LET a == call("parse_expr", <<p1, td>>)
                      IN  IF ~a.ok THEN a ELSE call("parse_call_args", <<a.pos, td, <<a.val>>>>)
                 ELSE Ok(<<>>, p1)
         IN  IF ~args.ok THEN args
             ELSE LET e == expect(Tk("RParen"), args.pos)
                  IN  IF ~e.ok THEN e ELSE Ok(Call(name, args.val), e.pos)
    ELSE Ok(Identifier(name), p)

\* the LParen arm of parse_primary, after '(' is consumed
parse_paren(p, td) ==
    IF current_token(p) = Tk("LBrace")
    THEN LET sk == call("skip_brace_block", <<p>>)
         IN  IF ~sk.ok THEN sk
             ELSE LET e == expect(Tk("RParen"), sk.pos)
                  IN  IF ~e.ok THEN e ELSE Ok(Null, e.pos)
    ELSE IF starts_type(p, td)
    THEN LET typ == call("parse_type", <<p, td>>)
         IN  IF ~typ.ok THEN typ
             ELSE LET e == expect(Tk("RParen"), typ.pos)
                  IN  IF ~e.ok THEN e
                      ELSE IF current_token(e.pos) = Tk("LBrace")
                      THEN LET sk == call("skip_brace_block", <<e.pos>>)
                           IN  IF ~sk.ok THEN sk ELSE Ok(Null, sk.pos)
                      ELSE LET x == call("parse_unary", <<e.pos, td>>)
                           IN  IF ~x.ok THEN x ELSE Ok(Cast(typ.val, x.val), x.pos)
    ELSE LET x == call("parse_expr", <<p, td>>)
         IN  IF ~x.ok THEN x
             ELSE LET e == expect(Tk("RParen"), x.pos)
                  IN  IF ~e.ok THEN e ELSE Ok(x.val, e.pos)

\* the Sizeof arm with the parsed type discarded as the operand of the other
\* forms is
parse_sizeof_discarding(p, td) ==
    IF current_token(p) = Tk("LParen")
    THEN LET p1 == advance(p)
         IN  IF starts_type(p1, td)
             THEN LET typ == call("parse_type", <<p1, td>>)
                  IN  IF ~typ.ok THEN typ
                      ELSE LET e == expect(Tk("RParen"), typ.pos)
                           IN  IF ~e.ok THEN e ELSE Ok(Null, e.pos)
             ELSE LET x == call("parse_expr", <<p1, td>>)
                  IN  IF ~x.ok THEN x
                      ELSE LET e == expect(Tk("RParen"), x.pos)
                           IN  IF ~e.ok THEN e ELSE Ok(Null, e.pos)
    ELSE LET x == call("parse_unary", <<p, td>>)
         IN  IF ~x.ok THEN x ELSE Ok(Null, x.pos)

\* the Sizeof arm of parse_primary, after 'sizeof' is consumed
parse_sizeof(p, td) ==
    IF current_token(p) = Tk("LParen")
    THEN LET p1 == advance(p)
         IN  IF starts_type(p1, td)
             THEN LET typ == call("parse_type", <<p1, td>>)
                  IN  IF ~typ.ok THEN typ
                      ELSE LET e == expect(Tk("RParen"), typ.pos)
                           IN  IF ~e.ok THEN e ELSE Ok(SizeOf(typ.val), e.pos)
             ELSE LET x == call("parse_expr", <<p1, td>>)
                  IN  IF ~x.ok THEN x
                      ELSE LET e == expect(Tk("RParen"), x.pos)
                           IN  IF ~e.ok THEN e ELSE Ok(Null, e.pos)
    ELSE LET x == call("parse_unary", <<p, td>>)
         IN  IF ~x.ok THEN x ELSE Ok(Null, x.pos)

parse_primary(p, td) ==
    LET tok == current_token(p)
    IN  CASE tok.t = "IntLiteral" -> Ok(IntLiteral(tok.n), advance(p))
          [] tok.t = "FloatLiteral" -> Ok(FloatLiteral(tok.f), advance(p))
          [] tok.t = "CharLiteral" -> Ok(CharLiteral(tok.s), advance(p))
          [] tok.t = "StringLiteral" ->
                LET c == call("concat_string_literals", <<advance(p), tok.s>>)
                IN  Ok(StringLiteral(c.val), c.pos)
          [] tok.t = "Identifier" -> parse_identifier_or_call(tok.s, advance(p), td)
          [] tok.t = "LParen" -> parse_paren(advance(p), td)
          [] tok.t = "Sizeof" -> parse_sizeof(advance(p), td)
          [] OTHER -> Err(ErrGot("Unexpected token in expression", tok), p)

\* parse_postfix with one postfix operator at most
parse_postfix_loop_once(p, td, expr) ==
    LET tok == current_token(p)
        p1 == advance(p)
    IN  CASE tok.t = "LBracket" ->
                LET index == call("parse_expr", <<p1, td>>)
                IN  IF ~index.ok THEN index
                    ELSE LET e == expect(Tk("RBracket"), index.pos)
                         IN  IF ~e.ok THEN e
                             ELSE Ok(ArrayAccess(expr, index.val), e.pos)
          [] tok.t = "Dot" ->
                IF current_token(p1).t = "Identifier"
                THEN Ok(MemberAccess(expr, current_token(p1).s), advance(p1))
                ELSE Err(ErrGot("Expected identifier after '.'", current_token(p1)), p1)
          [] tok.t = "Arrow" ->
                IF current_token(p1).t = "Identifier"
                THEN Ok(PointerMemberAccess(expr, current_token(p1).s), advance(p1))
                ELSE Err(ErrGot("Expected identifier after '->'", current_token(p1)), p1)
          [] tok.t = "Increment" -> Ok(Unary("PostIncrement", expr), p1)
          [] tok.t = "Decrement" -> Ok(Unary("PostDecrement", expr), p1)
          [] OTHER -> Ok(expr, p)

\* the loop of parse_postfix
parse_postfix_loop(p, td, expr) ==
    LET tok == current_token(p)
        p1 == advance(p)
    IN  CASE tok.t = "LBracket" ->
                LET index == call("parse_expr", <<p1, td>>)
                IN  IF ~index.ok THEN index
                    ELSE LET e == expect(Tk("RBracket"), index.pos)
                         IN  IF ~e.ok THEN e
                             ELSE call("parse_postfix_loop",
                                       <<e.pos, td, ArrayAccess(expr, index.val)>>)
          [] tok.t = "Dot" ->
                IF current_token(p1).t = "Identifier"
                THEN call("parse_postfix_loop",
                          <<advance(p1), td, MemberAccess(expr, current_token(p1).s)>>)
                ELSE Err(ErrGot("Expected identifier after '.'", current_token(p1)), p1)
          [] tok.t = "Arrow" ->
                IF current_token(p1).t = "Identifier"
                THEN call("parse_postfix_loop",
                          <<advance(p1), td, PointerMemberAccess(expr, current_token(p1).s)>>)
                ELSE Err(ErrGot("Expected identifier after '->'", current_token(p1)), p1)
          [] tok.t = "Increment" ->
                call("parse_postfix_loop", <<p1, td, Unary("PostIncrement", expr)>>)
          [] tok.t = "Decrement" ->
                call("parse_postfix_loop", <<p1, td, Unary("PostDecrement", expr)>>)
          [] OTHER -> Ok(expr, p)

parse_postfix(p, td) ==
    and_then(parse_primary(p, td), "parse_postfix_loop", td)

\* the prefix operators with '++' and '--' given the tags of the trailing ones
prefix_ops_post_tags ==
    ("Minus" :> "Neg") @@ ("Not" :> "Not") @@ ("BitNot" :> "BitNot") @@
    ("Star" :> "Deref") @@ ("Ampersand" :> "AddressOf") @@
    ("Increment" :> "PostIncrement") @@ ("Decrement" :> "PostDecrement")

\* the prefix operators of parse_unary
prefix_ops ==
    ("Minus" :> "Neg") @@ ("Not" :> "Not") @@ ("BitNot" :> "BitNot") @@
    ("Star" :> "Deref") @@ ("Ampersand" :> "AddressOf") @@
    ("Increment" :> "PreIncrement") @@ ("Decrement" :> "PreDecrement")

parse_unary(p, td) ==
    LET tag == current_token(p).t
    IN  IF tag \in DOMAIN prefix_ops
        THEN LET operand == call("parse_unary", <<advance(p), td>>)
             IN  IF ~operand.ok THEN operand
                 ELSE Ok(Unary(prefix_ops[tag], operand.val), operand.pos)
        ELSE parse_postfix(p, td)

\* the additive operators matched at the multiplicative level as well
multiplicative_ops_flat ==
    ("Star" :> "Mul") @@ ("Slash" :> "Div") @@ ("Percent" :> "Mod") @@
    ("Plus" :> "Add") @@ ("Minus" :> "Sub")

\* the operators parse_multiplicative matches
multiplicative_ops ==
    ("Star" :> "Mul") @@ ("Slash" :> "Div") @@ ("Percent" :> "Mod")

\* the loop of parse_multiplicative
parse_multiplicative_loop(p, td, left) ==
    LET tag == current_token(p).t
    IN  IF tag \in DOMAIN multiplicative_ops
        THEN LET right == call("parse_unary", <<advance(p), td>>)
             IN  IF ~right.ok THEN right
                 ELSE call("parse_multiplicative_loop",
                           <<right.pos, td, Binary(multiplicative_ops[tag], left, right.val)>>)
        ELSE Ok(left, p)

parse_multiplicative(p, td) ==
    and_then(parse_unary(p, td), "parse_multiplicative_loop", td)

\* the operators parse_additive matches
additive_ops ==
    ("Plus" :> "Add") @@ ("Minus" :> "Sub")

\* the loop of parse_additive taking a whole additive expression on the right
parse_additive_loop_right(p, td, left) ==
    LET tag == current_token(p).t
    IN  IF tag \in DOMAIN additive_ops
        THEN LET right == call("parse_additive", <<advance(p), td>>)
             IN  IF ~right.ok THEN right
                 ELSE Ok(Binary(additive_ops[tag], left, right.val), right.pos)
        ELSE Ok(left, p)

\* the loop of parse_additive
parse_additive_loop(p, td, left) ==
    LET tag == current_token(p).t
    IN  IF tag \in DOMAIN additive_ops
        THEN LET right == call("parse_multiplicative", <<advance(p), td>>)
             IN  IF ~right.ok THEN right
                 ELSE call("parse_additive_loop",
                           <<right.pos, td, Binary(additive_ops[tag], left, right.val)>>)
        ELSE Ok(left, p)

parse_additive(p, td) ==
    and_then(parse_multiplicative(p, td), "parse_additive_loop", td)

\* the operators parse_shift matches
shift_ops ==
    ("LeftShift" :> "LeftShift") @@ ("RightShift" :> "RightShift")

\* the loop of parse_shift
parse_shift_loop(p, td, left) ==
    LET tag == current_token(p).t
    IN  IF tag \in DOMAIN shift_ops
        THEN LET right == call("parse_additive", <<advance(p), td>>)
             IN  IF ~right.ok THEN right
                 ELSE call("parse_shift_loop",
                           <<right.pos, td, Binary(shift_ops[tag], left, right.val)>>)
        ELSE Ok(left, p)

parse_shift(p, td) ==
    and_then(parse_additive(p, td), "parse_shift_loop", td)

\* the operators parse_comparison matches
comparison_ops ==
    ("Lt" :> "Lt") @@ ("Gt" :> "Gt") @@ ("Le" :> "Le") @@ ("Ge" :> "Ge") @@
    ("Eq" :> "Eq") @@ ("Ne" :> "Ne")

\* the loop of parse_comparison
parse_comparison_loop(p, td, left) ==
    LET tag == current_token(p).t
    IN  IF tag \in DOMAIN comparison_ops
        THEN LET right == call("parse_shift", <<advance(p), td>>)
             IN  IF ~right.ok THEN right
                 ELSE call("parse_comparison_loop",
                           <<right.pos, td, Binary(comparison_ops[tag], left, right.val)>>)
        ELSE Ok(left, p)

parse_comparison(p, td) ==
    and_then(parse_shift(p, td), "parse_comparison_loop", td)

\* the operators parse_bitwise_and matches
bitwise_and_ops ==
    ("Ampersand" :> "BitAnd")

\* the loop of parse_bitwise_and
parse_bitwise_and_loop(p, td, left) ==
    LET tag == current_token(p).t
    IN  IF tag \in DOMAIN bitwise_and_ops
        THEN LET right == call("parse_comparison", <<advance(p), td>>)
             IN  IF ~right.ok THEN right
                 ELSE call("parse_bitwise_and_loop",
                           <<right.pos, td, Binary(bitwise_and_ops[tag], left, right.val)>>)
        ELSE Ok(left, p)

parse_bitwise_and(p, td) ==
    and_then(parse_comparison(p, td), "parse_bitwise_and_loop", td)

\* the operators parse_bitwise_xor matches
bitwise_xor_ops ==
    ("BitXor" :> "BitXor")

\* the loop of parse_bitwise_xor
parse_bitwise_xor_loop(p, td, left) ==
    LET tag == current_token(p).t
    IN  IF tag \in DOMAIN bitwise_xor_ops
        THEN LET right == call("parse_bitwise_and", <<advance(p), td>>)
             IN  IF ~right.ok THEN right
                 ELSE call("parse_bitwise_xor_loop",
                           <<right.pos, td, Binary(bitwise_xor_ops[tag], left, right.val)>>)
        ELSE Ok(left, p)

parse_bitwise_xor(p, td) ==
    and_then(parse_bitwise_and(p, td), "parse_bitwise_xor_loop", td)

\* the operators parse_bitwise_or matches
bitwise_or_ops ==
    ("BitOr" :> "BitOr")

\* the loop of parse_bitwise_or
parse_bitwise_or_loop(p, td, left) ==
    LET tag == current_token(p).t
    IN  IF tag \in DOMAIN bitwise_or_ops
        THEN LET right == call("parse_bitwise_xor", <<advance(p), td>>)
             IN  IF ~right.ok THEN right
                 ELSE call("parse_bitwise_or_loop",
                           <<right.pos, td, Binary(bitwise_or_ops[tag], left, right.val)>>)
        ELSE Ok(left, p)

parse_bitwise_or(p, td) ==
    and_then(parse_bitwise_xor(p, td), "parse_bitwise_or_loop", td)

\* the operators parse_logical matches
logical_ops ==
    ("And" :> "And") @@ ("Or" :> "Or")

\* the loop of parse_logical
parse_logical_loop(p, td, left) ==
    LET tag == current_token(p).t
    IN  IF tag \in DOMAIN logical_ops
        THEN LET right == call("parse_bitwise_or", <<advance(p), td>>)
             IN  IF ~right.ok THEN right
                 ELSE call("parse_logical_loop",
                           <<right.pos, td, Binary(logical_ops[tag], left, right.val)>>)
        ELSE Ok(left, p)

parse_logical(p, td) ==
    and_then(parse_bitwise_or(p, td), "parse_logical_loop", td)

\* parse_ternary after its condition
parse_ternary_rest(p, td, cond) ==
    IF current_token(p) = Tk("Question")
    THEN LET then_expr == call("parse_expr", <<advance(p), td>>)
         IN  IF ~then_expr.ok THEN then_expr
             ELSE LET e == expect(Tk("Colon"), then_expr.pos)
                  IN  IF ~e.ok THEN e
                      ELSE LET else_expr == call("parse_ternary", <<e.pos, td>>)
                           IN  IF ~else_expr.ok THEN else_expr
                               ELSE Ok(Ternary(cond, then_expr.val, else_expr.val),
                                       else_expr.pos)
    ELSE Ok(cond, p)

parse_ternary(p, td) ==
    and_then(parse_logical(p, td), "parse_ternary_rest", td)

\* the match on op_token in parse_assignment: compound-assignment token -> BinaryOp
compound_ops ==
    ("PlusAssign" :> "Add") @@ ("MinusAssign" :> "Sub") @@ ("StarAssign" :> "Mul") @@
    ("SlashAssign" :> "Div") @@ ("PercentAssign" :> "Mod") @@ ("AndAssign" :> "BitAnd") @@
    ("OrAssign" :> "BitOr") @@ ("XorAssign" :> "BitXor") @@
    ("LeftShiftAssign" :> "LeftShift") @@ ("RightShiftAssign" :> "RightShift")

\* the closure make_assign
make_assign(target, value) == Assignment(target, value)

\* the operands of the desugared operation exchanged
compound_value_swapped(tag, left, right) == Binary(compound_ops[tag], right, left)

\* the value a compound assignment left OP= right is given
compound_value(tag, left, right) == Binary(compound_ops[tag], left, right)

\* parse_assignment after its left side: the match on the current token
parse_assignment_rest(p, td, left) ==
    LET tag == current_token(p).t
    IN  CASE tag = "Assign" ->
                LET right == call("parse_assignment", <<advance(p), td>>)
                IN  IF ~right.ok THEN right
                    ELSE Ok(make_assign(left, right.val), right.pos)
          [] tag \in DOMAIN compound_ops ->
                LET right == call("parse_assignment", <<advance(p), td>>)
                IN  IF ~right.ok THEN right
                    ELSE Ok(make_assign(left, compound_value(tag, left, right.val)),
                            right.pos)
          [] OTHER -> Ok(left, p)

parse_assignment(p, td) ==
    and_then(parse_ternary(p, td), "parse_assignment_rest", td)

parse_expr(p, td) == parse_assignment(p, td)

(***************************************************************************)
(* Stmt and Declaration (src/src/ast.rs)                                   *)
(***************************************************************************)
VarDecl(typ, name, init) == [k |-> "VarDecl", typ |-> typ, name |-> name, init |-> init]

Return(expr) == [k |-> "Return", expr |-> expr]

ExprStmt(expr) == [k |-> "Expr", expr |-> expr]

If(cond, then_block, else_block) ==
    [k |-> "If", cond |-> cond, then_block |-> then_block, else_block |-> else_block]

While(cond, body) == [k |-> "While", cond |-> cond, body |-> body]

DoWhile(body, cond) == [k |-> "DoWhile", body |-> body, cond |-> cond]

For(init, cond, update, body) ==
    [k |-> "For", init |-> init, cond |-> cond, update |-> update, body |-> body]

Break == [k |-> "Break"]

Continue == [k |-> "Continue"]

Goto(label) == [k |-> "Goto", label |-> label]

Block(stmts) == [k |-> "Block", stmts |-> stmts]

Empty == [k |-> "Empty"]

Param(typ, name) == [typ |-> typ, name |-> name]

StructField(typ, name) == [typ |-> typ, name |-> name]

EnumVariant(name, value) == [name |-> name, value |-> value]

\* Declaration::Function(Function { .. })
DeclFunction(return_type, name, params, body) ==
    [k |-> "Function", return_type |-> return_type, name |-> name,
     params |-> params, body |-> body]

\* Declaration::Struct(StructDef { .. })
DeclStruct(name, fields) == [k |-> "Struct", name |-> name, fields |-> fields]

\* Declaration::Union(UnionDef { .. })
DeclUnion(name, fields) == [k |-> "Union", name |-> name, fields |-> fields]

\* Declaration::Enum(EnumDef { .. })
DeclEnum(name, variants) == [k |-> "Enum", name |-> name, variants |-> variants]

\* Declaration::Typedef(TypedefDef { .. })
DeclTypedef(name, target_type) ==
    [k |-> "Typedef", name |-> name, target_type |-> target_type]

GlobalVar(typ, name, init) ==
    [k |-> "GlobalVar", typ |-> typ, name |-> name, init |-> init]

(***************************************************************************)
(* Parser: statements                                                      *)
(***************************************************************************)

\* the optional initializer after a declarator: None when absent or when a
\* brace-delimited aggregate initializer is skipped
parse_initializer(p, td) ==
    IF current_token(p) = Tk("Assign")
    THEN LET p1 == advance(p)
         IN  IF current_token(p1) = Tk("LBrace")
             THEN LET sk == call("skip_brace_block", <<p1>>)
                  IN  IF ~sk.ok THEN sk ELSE Ok(None, sk.pos)
             ELSE LET x == call("parse_expr", <<p1, td>>)
                  IN  IF ~x.ok THEN x ELSE Ok(Some(x.val), x.pos)
    ELSE Ok(None, p)

\* one declarator with its initializer, as a VarDecl
parse_var_decl(p, td, base) ==
    LET d == call("parse_declarator", <<p, td, base>>)
    IN  IF ~d.ok THEN d
        ELSE LET init == call("parse_initializer", <<d.pos, td>>)
             IN  IF ~init.ok THEN init
                 ELSE Ok(VarDecl(d.val.ty, d.val.name, init.val), init.pos)

\* the comma loop over the further declarators of a local declaration
parse_more_var_decls(p, td, base, decls) ==
    IF current_token(p) = Tk("Comma")
    THEN LET d == call("parse_var_decl", <<advance(p), td, base>>)
         IN  IF ~d.ok THEN d
             ELSE call("parse_more_var_decls", <<d.pos, td, base, Append(decls, d.val)>>)
    ELSE Ok(decls, p)

\* the first arm of parse_statement: a declaration led by a type keyword
parse_keyword_var_decl(p, td) ==
    LET basety == call("parse_type", <<p, td>>)
    IN  IF ~basety.ok THEN basety
        ELSE LET first == call("parse_var_decl", <<basety.pos, td, basety.val>>)
             IN  IF ~first.ok THEN first
                 ELSE LET decls == call("parse_more_var_decls",
                                        <<first.pos, td, basety.val, <<first.val>>>>)
                      IN  IF ~decls.ok THEN decls
                          ELSE LET e == expect(Tk("Semicolon"), decls.pos)
                               IN  IF ~e.ok THEN e
                                   ELSE IF Len(decls.val) = 1
                                   THEN Ok(decls.val[1], e.pos)
                                   ELSE Ok(Block(decls.val), e.pos)

\* the second arm of parse_statement: a declaration led by a typedef name
parse_typedef_var_decl(p, td) ==
    LET basety == call("parse_type", <<p, td>>)
    IN  IF ~basety.ok THEN basety
        ELSE LET d == call("parse_var_decl", <<basety.pos, td, basety.val>>)
             IN  IF ~d.ok THEN d
                 ELSE LET e == expect(Tk("Semicolon"), d.pos)
                      IN  IF ~e.ok THEN e ELSE Ok(d.val, e.pos)

\* the first arm of parse_statement without the struct introducer
StatementTypeKeywords_no_struct ==
    {"Int", "Char", "Float", "Double", "Long", "Short", "Unsigned", "Signed",
     "Const", "Volatile", "Static", "Extern", "Union", "Enum"}

\* the tokens the first arm of parse_statement matches
StatementTypeKeywords ==
    {"Int", "Char", "Float", "Double", "Long", "Short", "Unsigned", "Signed",
     "Const", "Volatile", "Static", "Extern", "Struct", "Union", "Enum"}

\* while current != RBrace && current != Eof { stmts.push(parse_statement()?) }
parse_stmt_list(p, td, stmts) ==
    IF current_token(p) # Tk("RBrace") /\ current_token(p) # Eof
    THEN LET st == call("parse_statement", <<p, td>>)
         IN  IF ~st.ok THEN st ELSE call("parse_stmt_list", <<st.pos, td, Append(stmts, st.val)>>)
    ELSE Ok(stmts, p)

\* '{' already consumed: the statements up to and including '}'
parse_braced_stmts(p, td) ==
    LET l == call("parse_stmt_list", <<p, td, <<>>>>)
    IN  IF ~l.ok THEN l
        ELSE LET e == expect(Tk("RBrace"), l.pos)
             IN  IF ~e.ok THEN e ELSE Ok(l.val, e.pos)

\* the body of if / else / while / do / for: a braced block or one statement
parse_body(p, td) ==
    IF current_token(p) = Tk("LBrace")
    THEN call("parse_braced_stmts", <<advance(p), td>>)
    ELSE LET st == call("parse_statement", <<p, td>>)
         IN  IF ~st.ok THEN st ELSE Ok(<<st.val>>, st.pos)

\* expect '(' , an expression, expect ')'
parse_paren_cond(p, td) ==
    LET e1 == expect(Tk("LParen"), p)
    IN  IF ~e1.ok THEN e1
        ELSE LET cond == call("parse_expr", <<e1.pos, td>>)
             IN  IF ~cond.ok THEN cond
                 ELSE LET e2 == expect(Tk("RParen"), cond.pos)
                      IN  IF ~e2.ok THEN e2 ELSE Ok(cond.val, e2.pos)

parse_return(p, td) ==
    LET expr == IF current_token(p) # Tk("Semicolon")
                THEN LET x == call("parse_expr", <<p, td>>)
                     IN  IF ~x.ok THEN x ELSE Ok(Some(x.val), x.pos)
                ELSE Ok(None, p)
    IN  IF ~expr.ok THEN expr
        ELSE LET e == expect(Tk("Semicolon"), expr.pos)
             IN  IF ~e.ok THEN e ELSE Ok(Return(expr.val), e.pos)

parse_if(p, td) ==
    LET cond == call("parse_paren_cond", <<p, td>>)
    IN  IF ~cond.ok THEN cond
        ELSE LET then_block == call("parse_body", <<cond.pos, td>>)
             IN  IF ~then_block.ok THEN then_block
                 ELSE IF current_token(then_block.pos) = Tk("Else")
                 THEN LET else_block == call("parse_body", <<advance(then_block.pos), td>>)
                      IN  IF ~else_block.ok THEN else_block
                          ELSE Ok(If(cond.val, then_block.val, Some(else_block.val)),
                                  else_block.pos)
                 ELSE Ok(If(cond.val, then_block.val, None), then_block.pos)

parse_while(p, td) ==
    LET cond == call("parse_paren_cond", <<p, td>>)
    IN  IF ~cond.ok THEN cond
        ELSE LET body == call("parse_body", <<cond.pos, td>>)
             IN  IF ~body.ok THEN body ELSE Ok(While(cond.val, body.val), body.pos)

parse_switch(p, td) ==
    LET cond == call("parse_paren_cond", <<p, td>>)
    IN  IF ~cond.ok THEN cond
        ELSE IF current_token(cond.pos) = Tk("LBrace")
        THEN LET sk == call("skip_brace_block", <<cond.pos>>)
             IN  IF ~sk.ok THEN sk ELSE Ok(Empty, sk.pos)
        ELSE LET st == call("parse_statement", <<cond.pos, td>>)
             IN  IF ~st.ok THEN st ELSE Ok(Empty, st.pos)

parse_do(p, td) ==
    LET body == call("parse_body", <<p, td>>)
    IN  IF ~body.ok THEN body
        ELSE LET w == expect(Tk("While"), body.pos)
             IN  IF ~w.ok THEN w
                 ELSE LET cond == call("parse_paren_cond", <<w.pos, td>>)
                      IN  IF ~cond.ok THEN cond
                          ELSE LET e == expect(Tk("Semicolon"), cond.pos)
                               IN  IF ~e.ok THEN e
                                   ELSE Ok(DoWhile(body.val, cond.val), e.pos)

parse_for(p, td) ==
    LET lp == expect(Tk("LParen"), p)
    IN  IF ~lp.ok THEN lp
        ELSE
        LET init == IF current_token(lp.pos) = Tk("Semicolon")
                    THEN Ok(None, advance(lp.pos))
                    ELSE LET st == call("parse_statement", <<lp.pos, td>>)
                         IN  IF ~st.ok THEN st ELSE Ok(Some(st.val), st.pos)
        IN  IF ~init.ok THEN init
            ELSE
            LET cond == IF current_token(init.pos) = Tk("Semicolon")
                        THEN Ok(None, advance(init.pos))
                        ELSE LET x == call("parse_expr", <<init.pos, td>>)
                             IN  IF ~x.ok THEN x
                                 ELSE LET e == expect(Tk("Semicolon"), x.pos)
                                      IN  IF ~e.ok THEN e ELSE Ok(Some(x.val), e.pos)
            IN  IF ~cond.ok THEN cond
                ELSE
                LET update == IF current_token(cond.pos) = Tk("RParen")
                              THEN Ok(None, cond.pos)
                              ELSE LET x == call("parse_expr", <<cond.pos, td>>)
                                   IN  IF ~x.ok THEN x ELSE Ok(Some(x.val), x.pos)
                IN  IF ~update.ok THEN update
                    ELSE
                    LET rp == expect(Tk("RParen"), update.pos)
                    IN  IF ~rp.ok THEN rp
                        ELSE LET body == call("parse_body", <<rp.pos, td>>)
                             IN  IF ~body.ok THEN body
                                 ELSE Ok(For(init.val, cond.val, update.val, body.val),
                                         body.pos)

\* break; and continue;
parse_jump(stmt, p) ==
    LET e == expect(Tk("Semicolon"), p)
    IN  IF ~e.ok THEN e ELSE Ok(stmt, e.pos)

parse_goto(p) ==
    IF current_token(p).t = "Identifier"
    THEN LET e == expect(Tk("Semicolon"), advance(p))
         IN  IF ~e.ok THEN e ELSE Ok(Goto(current_token(p).s), e.pos)
    ELSE Err(ErrMsg("Expected label after goto"), p)

parse_expr_statement(p, td) ==
    LET x == call("parse_expr", <<p, td>>)
    IN  IF ~x.ok THEN x
        ELSE LET e == expect(Tk("Semicolon"), x.pos)
             IN  IF ~e.ok THEN e ELSE Ok(ExprStmt(x.val), e.pos)

parse_statement(p, td) ==
    LET tok == current_token(p)
    IN  CASE tok.t \in StatementTypeKeywords -> parse_keyword_var_decl(p, td)
          [] is_typedef_name(tok, td) -> parse_typedef_var_decl(p, td)
          [] tok.t = "Return" -> parse_return(advance(p), td)
          [] tok.t = "If" -> call("parse_if", <<advance(p), td>>)
          [] tok.t = "While" -> call("parse_while", <<advance(p), td>>)
          [] tok.t = "Switch" -> call("parse_switch", <<advance(p), td>>)
          [] tok.t = "Do" -> call("parse_do", <<advance(p), td>>)
          [] tok.t = "For" -> call("parse_for", <<advance(p), td>>)
          [] tok.t = "Break" -> call("parse_jump", <<Break, advance(p)>>)
          [] tok.t = "Continue" -> call("parse_jump", <<Continue, advance(p)>>)
          [] tok.t = "Goto" -> call("parse_goto", <<advance(p)>>)
          [] tok.t = "LBrace" ->
                LET b == call("parse_braced_stmts", <<advance(p), td>>)
                IN  IF ~b.ok THEN b ELSE Ok(Block(b.val), b.pos)
          [] OTHER -> parse_expr_statement(p, td)

(***************************************************************************)
(* Parser: top-level declarations.  parse_typedef is the one routine that  *)
(* writes typedef_names, so these results carry the set as well.           *)
(***************************************************************************)
OkT(val, p, td) == [ok |-> TRUE, val |-> val, pos |-> p, td |-> td]

\* the failure r of a sub-routine, propagated by `?` with the set as it stands
ErrT(r, td) == [ok |-> FALSE, err |-> r.err, pos |-> r.pos, td |-> td]

\* the set replaced by the new name alone
typedef_insert_replacing(td, name) == {name}

\* typedef_names left as it was: the insert forgotten
typedef_insert_dropped(td, name) == td

\* typedef_names.insert(name)
typedef_insert(td, name) == td \cup {name}

\* the field loop of parse_struct_def and parse_union_def
parse_fields(p, td, fields) ==
    IF current_token(p) # Tk("RBrace") /\ current_token(p) # Eof
    THEN LET basety == call("parse_type", <<p, td>>)
         IN  IF ~basety.ok THEN basety
             ELSE LET d == call("parse_declarator", <<basety.pos, td, basety.val>>)
                  IN  IF ~d.ok THEN d
                      ELSE LET e == expect(Tk("Semicolon"), d.pos)
                           IN  IF ~e.ok THEN e
                               ELSE call("parse_fields",
                                         <<e.pos, td, Append(fields, StructField(d.val.ty, d.val.name))>>)
    ELSE Ok(fields, p)

\* parse_struct_def (kind = "Struct") and parse_union_def (kind = "Union"):
\* returns [name, fields]
parse_aggregate_def(kind, p, td) ==
    LET e1 == expect(Tk(kind), p)
    IN  IF ~e1.ok THEN e1
        ELSE IF current_token(e1.pos).t # "Identifier"
        THEN Err(ErrMsg(IF kind = "Struct" THEN "Expected struct name"
                        ELSE "Expected union name"), e1.pos)
        ELSE LET name == current_token(e1.pos).s
                 e2 == expect(Tk("LBrace"), advance(e1.pos))
             IN  IF ~e2.ok THEN e2
                 ELSE LET fs == call("parse_fields", <<e2.pos, td, <<>>>>)
                      IN  IF ~fs.ok THEN fs
                          ELSE LET e3 == expect(Tk("RBrace"), fs.pos)
                               IN  IF ~e3.ok THEN e3
                                   ELSE Ok([name |-> name, fields |-> fs.val], e3.pos)

parse_struct_def(p, td) == call("parse_aggregate_def", <<"Struct", p, td>>)

parse_union_def(p, td) == call("parse_aggregate_def", <<"Union", p, td>>)

\* the variant loop of parse_enum_def
parse_variants(p, variants) ==
    IF current_token(p) # Tk("RBrace") /\ current_token(p) # Eof
    THEN IF current_token(p).t # "Identifier"
         THEN Err(ErrMsg("Expected enum variant name"), p)
         ELSE LET name == current_token(p).s
                  p1 == advance(p)
                  has_value == current_token(p1) = Tk("Assign")
                  p2 == advance(p1)
              IN  IF has_value /\ current_token(p2).t # "IntLiteral"
                  THEN Err(ErrMsg("Expected integer literal for enum value"), p2)
                  ELSE LET value == IF has_value THEN Some(current_token(p2).n) ELSE None
                           p3 == IF has_value THEN advance(p2) ELSE p1
                           vs == Append(variants, EnumVariant(name, value))
                       IN  IF current_token(p3) = Tk("Comma")
                           THEN call("parse_variants", <<advance(p3), vs>>)
                           ELSE Ok(vs, p3)
    ELSE Ok(variants, p)

\* returns [name, variants]
parse_enum_def(p) ==
    LET e1 == expect(Tk("Enum"), p)
    IN  IF ~e1.ok THEN e1
        ELSE LET named == current_token(e1.pos).t = "Identifier"
                 name == IF named THEN current_token(e1.pos).s ELSE ""
                 e2 == expect(Tk("LBrace"), IF named THEN advance(e1.pos) ELSE e1.pos)
             IN  IF ~e2.ok THEN e2
                 ELSE LET vs == call("parse_variants", <<e2.pos, <<>>>>)
                      IN  IF ~vs.ok THEN vs
                          ELSE LET e3 == expect(Tk("RBrace"), vs.pos)
                               IN  IF ~e3.ok THEN e3
                                   ELSE Ok([name |-> name, variants |-> vs.val], e3.pos)

\* the Struct | Union | Enum arm of parse_typedef, at the introducer
parse_typedef_aggregate(p, td) ==
    LET kind == current_token(p).t
        p1 == advance(p)
        tagged == current_token(p1).t = "Identifier"
        tag_name == IF tagged THEN current_token(p1).s ELSE ""
        p2 == IF tagged THEN advance(p1) ELSE p1
        sk == IF current_token(p2) = Tk("LBrace") THEN call("skip_brace_block",
                                                            <<p2>>) ELSE Ok(Unit, p2)
    IN  IF ~sk.ok THEN ErrT(sk, td)
        ELSE LET d == call("parse_declarator", <<sk.pos, td, Named(kind, tag_name)>>)
             IN  IF ~d.ok THEN ErrT(d, td)
                 ELSE LET e == expect(Tk("Semicolon"), d.pos)
                      IN  IF ~e.ok THEN ErrT(e, td)
                          ELSE OkT(DeclTypedef(d.val.name, d.val.ty), e.pos,
                                   typedef_insert(td, d.val.name))

\* the comma loop of parse_typedef: further names are only entered in the set
parse_typedef_more(p, td, base) ==
    IF current_token(p) = Tk("Comma")
    THEN LET d == call("parse_declarator", <<advance(p), td, base>>)
         IN  IF ~d.ok THEN ErrT(d, td)
             ELSE call("parse_typedef_more", <<d.pos, typedef_insert(td, d.val.name), base>>)
    ELSE OkT(Unit, p, td)

\* the general arm of parse_typedef: typedef <type> declarator (, declarator)* ;
parse_typedef_plain(p, td) ==
    LET base_type == call("parse_type", <<p, td>>)
    IN  IF ~base_type.ok THEN ErrT(base_type, td)
        ELSE LET d == call("parse_declarator", <<base_type.pos, td, base_type.val>>)
             IN  IF ~d.ok THEN ErrT(d, td)
                 ELSE LET more == call("parse_typedef_more",
                                       <<d.pos, typedef_insert(td, d.val.name), base_type.val>>)
                      IN  IF ~more.ok THEN more
                          ELSE LET e == expect(Tk("Semicolon"), more.pos)
                               IN  IF ~e.ok THEN ErrT(e, more.td)
                                   ELSE OkT(DeclTypedef(d.val.name, d.val.ty), e.pos, more.td)

parse_typedef(p, td) ==
    LET e == expect(Tk("Typedef"), p)
    IN  IF ~e.ok THEN ErrT(e, td)
        ELSE IF current_token(e.pos).t \in {"Struct", "Union", "Enum"}
        THEN call("parse_typedef_aggregate", <<e.pos, td>>)
        ELSE call("parse_typedef_plain", <<e.pos, td>>)

\* the map of the parameter types to unnamed Params
unnamed_params(param_types) ==
    [i \in 1..Len(param_types) |-> Param(param_types[i], "")]

\* the function arm of parse_declaration, after the declarator
parse_function_rest(name, full_type, p, td) ==
    LET params == unnamed_params(full_type.params)
    IN  IF current_token(p) = Tk("Semicolon")
        THEN Ok(DeclFunction(full_type.return_type, name, params, <<>>), advance(p))
        ELSE LET e == expect(Tk("LBrace"), p)
             IN  IF ~e.ok THEN e
                 ELSE LET body == call("parse_braced_stmts", <<e.pos, td>>)
                      IN  IF ~body.ok THEN body
                          ELSE Ok(DeclFunction(full_type.return_type, name, params, body.val),
                                  body.pos)

\* parse_declaration without its comma loop
skip_more_globals_none(p, td, base) == Ok(Unit, p)

\* the comma loop of parse_declaration: further global declarators are dropped
skip_more_globals(p, td, base) ==
    IF current_token(p) = Tk("Comma")
    THEN LET d == call("parse_declarator", <<advance(p), td, base>>)
         IN  IF ~d.ok THEN d
             ELSE LET init == call("parse_initializer", <<d.pos, td>>)
                  IN  IF ~init.ok THEN init ELSE call("skip_more_globals", <<init.pos, td, base>>)
    ELSE Ok(Unit, p)

\* the global-variable arm of parse_declaration, after the declarator
parse_global_rest(name, full_type, base, p, td) ==
    LET init == call("parse_initializer", <<p, td>>)
    IN  IF ~init.ok THEN init
        ELSE LET more == call("skip_more_globals", <<init.pos, td, base>>)
             IN  IF ~more.ok THEN more
                 ELSE LET e == expect(Tk("Semicolon"), more.pos)
                      IN  IF ~e.ok THEN e
                          ELSE Ok(GlobalVar(full_type, name, init.val), e.pos)

\* the default arm of parse_declaration: a function or a global variable
parse_function_or_global(p, td) ==
    LET base_type == call("parse_type", <<p, td>>)
    IN  IF ~base_type.ok THEN base_type
        ELSE LET d == call("parse_declarator", <<base_type.pos, td, base_type.val>>)
             IN  IF ~d.ok THEN d
                 ELSE IF d.val.ty.k = "Function"
                 THEN parse_function_rest(d.val.name, d.val.ty, d.pos, td)
                 ELSE parse_global_rest(d.val.name, d.val.ty, base_type.val, d.pos, td)

\* a definition followed by an optional ';'
optional_semicolon(r, decl) ==
    IF ~r.ok THEN r
    ELSE Ok(decl, IF current_token(r.pos) = Tk("Semicolon") THEN advance(r.pos) ELSE r.pos)

\* parse_declaration returning without a token consumed
parse_declaration_idle(p, td) == OkT(Unit, p, td)

\* the result of a routine that leaves typedef_names alone
WithTd(r, td) == IF r.ok THEN OkT(r.val, r.pos, td) ELSE ErrT(r, td)

parse_declaration(p, td) ==
    LET tag == current_token(p).t
    IN  CASE tag = "Struct" ->
                LET r == call("parse_struct_def", <<p, td>>)
                IN  WithTd(optional_semicolon(r,
                        IF r.ok THEN DeclStruct(r.val.name, r.val.fields) ELSE Unit), td)
          [] tag = "Union" ->
                LET r == call("parse_union_def", <<p, td>>)
                IN  WithTd(optional_semicolon(r,
                        IF r.ok THEN DeclUnion(r.val.name, r.val.fields) ELSE Unit), td)
          [] tag = "Enum" ->
                LET r == call("parse_enum_def", <<p>>)
                IN  WithTd(optional_semicolon(r,
                        IF r.ok THEN DeclEnum(r.val.name, r.val.variants) ELSE Unit), td)
          [] tag = "Typedef" -> call("parse_typedef", <<p, td>>)
          [] OTHER -> WithTd(parse_function_or_global(p, td), td)

(***************************************************************************)
(* The state machine                                                       *)
(***************************************************************************)
\* the dispatch of call: the method named, applied to its arguments
call(method, args) ==
    CASE method = "skip_brace_loop" -> skip_brace_loop(args[1], args[2])
      [] method = "skip_brace_block" -> skip_brace_block(args[1])
      [] method = "skip_storage_class" -> skip_storage_class(args[1])
      [] method = "parse_type_loop" -> parse_type_loop(args[1], args[2], args[3])
      [] method = "type_pointer_stars" -> type_pointer_stars(args[1], args[2])
      [] method = "parse_type" -> parse_type(args[1], args[2])
      [] method = "parse_param_types" -> parse_param_types(args[1], args[2], args[3])
      [] method = "parse_declarator_suffix" -> parse_declarator_suffix(args[1], args[2], args[3])
      [] method = "declarator_pointer_prefix" -> declarator_pointer_prefix(args[1], args[2])
      [] method = "parse_declarator" -> parse_declarator(args[1], args[2], args[3])
      [] method = "parse_expr" -> parse_expr(args[1], args[2])
      [] method = "concat_string_literals" -> concat_string_literals(args[1], args[2])
      [] method = "parse_call_args" -> parse_call_args(args[1], args[2], args[3])
      [] method = "parse_postfix_loop" -> parse_postfix_loop(args[1], args[2], args[3])
      [] method = "parse_unary" -> parse_unary(args[1], args[2])
      [] method = "parse_multiplicative_loop" -> parse_multiplicative_loop(args[1], args[2], args[3])
      [] method = "parse_multiplicative" -> parse_multiplicative(args[1], args[2])
      [] method = "parse_additive_loop" -> parse_additive_loop(args[1], args[2], args[3])
      [] method = "parse_additive" -> parse_additive(args[1], args[2])
      [] method = "parse_shift_loop" -> parse_shift_loop(args[1], args[2], args[3])
      [] method = "parse_shift" -> parse_shift(args[1], args[2])
      [] method = "parse_comparison_loop" -> parse_comparison_loop(args[1], args[2], args[3])
      [] method = "parse_comparison" -> parse_comparison(args[1], args[2])
      [] method = "parse_bitwise_and_loop" -> parse_bitwise_and_loop(args[1], args[2], args[3])
      [] method = "parse_bitwise_and" -> parse_bitwise_and(args[1], args[2])
      [] method = "parse_bitwise_xor_loop" -> parse_bitwise_xor_loop(args[1], args[2], args[3])
      [] method = "parse_bitwise_xor" -> parse_bitwise_xor(args[1], args[2])
      [] method = "parse_bitwise_or_loop" -> parse_bitwise_or_loop(args[1], args[2], args[3])
      [] method = "parse_bitwise_or" -> parse_bitwise_or(args[1], args[2])
      [] method = "parse_logical_loop" -> parse_logical_loop(args[1], args[2], args[3])
      [] method = "parse_ternary_rest" -> parse_ternary_rest(args[1], args[2], args[3])
      [] method = "parse_ternary" -> parse_ternary(args[1], args[2])
      [] method = "parse_assignment_rest" ->
            parse_assignment_rest(args[1], args[2], args[3])
      [] method = "parse_assignment" -> parse_assignment(args[1], args[2])
      [] method = "parse_initializer" -> parse_initializer(args[1], args[2])
      [] method = "parse_var_decl" -> parse_var_decl(args[1], args[2], args[3])
      [] method = "parse_more_var_decls" -> parse_more_var_decls(args[1], args[2], args[3], args[4])
      [] method = "parse_stmt_list" -> parse_stmt_list(args[1], args[2], args[3])
      [] method = "parse_braced_stmts" -> parse_braced_stmts(args[1], args[2])
      [] method = "parse_body" -> parse_body(args[1], args[2])
      [] method = "parse_paren_cond" -> parse_paren_cond(args[1], args[2])
      [] method = "parse_if" -> parse_if(args[1], args[2])
      [] method = "parse_while" -> parse_while(args[1], args[2])
      [] method = "parse_switch" -> parse_switch(args[1], args[2])
      [] method = "parse_do" -> parse_do(args[1], args[2])
      [] method = "parse_for" -> parse_for(args[1], args[2])
      [] method = "parse_jump" -> parse_jump(args[1], args[2])
      [] method = "parse_goto" -> parse_goto(args[1])
      [] method = "parse_statement" -> parse_statement(args[1], args[2])
      [] method = "parse_fields" -> parse_fields(args[1], args[2], args[3])
      [] method = "parse_aggregate_def" -> parse_aggregate_def(args[1], args[2], args[3])
      [] method = "parse_struct_def" -> parse_struct_def(args[1], args[2])
      [] method = "parse_union_def" -> parse_union_def(args[1], args[2])
      [] method = "parse_variants" -> parse_variants(args[1], args[2])
      [] method = "parse_enum_def" -> parse_enum_def(args[1])
      [] method = "parse_typedef_aggregate" -> parse_typedef_aggregate(args[1], args[2])
      [] method = "parse_typedef_more" -> parse_typedef_more(args[1], args[2], args[3])
      [] method = "parse_typedef_plain" -> parse_typedef_plain(args[1], args[2])
      [] method = "parse_typedef" -> parse_typedef(args[1], args[2])
      [] method = "skip_more_globals" -> skip_more_globals(args[1], args[2], args[3])
      [] method = "parse_declaration" -> parse_declaration(args[1], args[2])

\* One iteration of the loop of Lexer::tokenize, which Parser::new runs: the
\* token next_token returns is pushed, and Eof ends the loop.  The unwrap in
\* read_number panics on a digit run that is no i32.
LexStep ==
    /\ status = "lexing"
    /\ LET r == next_token(input, lex_pos)
       IN  IF r.panic
           THEN /\ status' = "panic"
                /\ lex_pos' = r.pos
                /\ UNCHANGED <<tokens, starts>>
           ELSE /\ tokens' = tokenize_push(tokens, r.tok)
                /\ starts' = Append(starts, r.start)
                /\ lex_pos' = r.pos
                /\ status' = IF r.tok = Eof THEN "parsing" ELSE "lexing"
    /\ UNCHANGED <<input, pos, typedef_names, declarations, error>>

\* One iteration of the loop of parse_program: parse_declaration()? either
\* pushes a declaration or makes parse_program return the error.
ParseDeclaration ==
    /\ status = "parsing"
    /\ current_token(pos) # Eof
    /\ LET r == call("parse_declaration", <<pos, typedef_names>>)
       IN  /\ pos' = r.pos
           /\ typedef_names' = r.td
           /\ IF r.ok
              THEN /\ declarations' = Append(declarations, r.val)
                   /\ UNCHANGED <<status, error>>
              ELSE /\ status' = "err"
                   /\ error' = r.err
                   /\ UNCHANGED declarations
    /\ UNCHANGED <<input, lex_pos, tokens, starts>>

\* The loop of parse_program ends at Eof: Ok(Program { declarations }).
ParseProgramOk ==
    /\ status = "parsing"
    /\ current_token(pos) = Eof
    /\ status' = "ok"
    /\ UNCHANGED <<input, lex_pos, tokens, starts, pos, typedef_names, declarations, error>>

\* What parse_program returns: Ok(Program { declarations }) from the end of
\* its loop, or the Err that `?` returned from inside the loop.
parse_program_result ==
    IF status = "ok" THEN [ok |-> TRUE, program |-> [declarations |-> declarations]]
    ELSE [ok |-> FALSE, err |-> error]

Next == LexStep \/ ParseDeclaration \/ ParseProgramOk

(***************************************************************************)
(* Inputs.  A source text is the sequence of its characters.               *)
(***************************************************************************)
\* int (*f)(int);
Src_fn_pointer ==
    <<"i", "n", "t", " ", "(", "*", "f", ")", "(", "i", "n", "t", ")", ";">>

\* int *f(int);
Src_pointer_fn ==
    <<"i", "n", "t", " ", "*", "f", "(", "i", "n", "t", ")", ";">>

\* typedef int T; T x;
Src_typedef_use ==
    <<"t", "y", "p", "e", "d", "e", "f", " ", "i", "n", "t", " ", "T", ";", " ", "T",
      " ", "x", ";">>

\* T x;
Src_no_typedef ==
    <<"T", " ", "x", ";">>

\* typedef int MyInt; int y = (MyInt)x;
Src_cast_typedef ==
    <<"t", "y", "p", "e", "d", "e", "f", " ", "i", "n", "t", " ", "M", "y", "I", "n",
      "t", ";", " ", "i", "n", "t", " ", "y", " ", "=", " ", "(", "M", "y", "I", "n",
      "t", ")", "x", ";">>

\* int y = (MyInt)x;
Src_cast_no_typedef ==
    <<"i", "n", "t", " ", "y", " ", "=", " ", "(", "M", "y", "I", "n", "t", ")", "x",
      ";">>

\* int* p = (int*)malloc(4);
Src_cast_malloc ==
    <<"i", "n", "t", "*", " ", "p", " ", "=", " ", "(", "i", "n", "t", "*", ")", "m", "a",
      "l", "l", "o", "c", "(", "4", ")", ";">>

\* int x = 1 + 2 * 3;
Src_add_mul ==
    <<"i", "n", "t", " ", "x", " ", "=", " ", "1", " ", "+", " ", "2", " ", "*", " ",
      "3", ";">>

\* int x = 1 * 2 + 3;
Src_mul_add ==
    <<"i", "n", "t", " ", "x", " ", "=", " ", "1", " ", "*", " ", "2", " ", "+", " ",
      "3", ";">>

\* int f() { a = b = c; }
Src_assign_chain ==
    <<"i", "n", "t", " ", "f", "(", ")", " ", "{", " ", "a", " ", "=", " ", "b", " ",
      "=", " ", "c", ";", " ", "}">>

\* int main( { return 0; }
Src_missing_rparen ==
    <<"i", "n", "t", " ", "m", "a", "i", "n", "(", " ", "{", " ", "r", "e", "t", "u",
      "r", "n", " ", "0", ";", " ", "}">>

\* int add(int a, int b) { return a + b; }
Src_add ==
    <<"i", "n", "t", " ", "a", "d", "d", "(", "i", "n", "t", " ", "a", ",", " ", "i",
      "n", "t", " ", "b", ")", " ", "{", " ", "r", "e", "t", "u", "r", "n", " ", "a",
      " ", "+", " ", "b", ";", " ", "}">>

\* struct Point { int x; int y; }; int main() { struct Point p; p.x = 1; return p.x; }
Src_struct_point ==
    <<"s", "t", "r", "u", "c", "t", " ", "P", "o", "i", "n", "t", " ", "{", " ", "i",
      "n", "t", " ", "x", ";", " ", "i", "n", "t", " ", "y", ";", " ", "}", ";", " ",
      "i", "n", "t", " ", "m", "a", "i", "n", "(", ")", " ", "{", " ", "s", "t", "r",
      "u", "c", "t", " ", "P", "o", "i", "n", "t", " ", "p", ";", " ", "p", ".", "x",
      " ", "=", " ", "1", ";", " ", "r", "e", "t", "u", "r", "n", " ", "p", ".", "x",
      ";", " ", "}">>

\* int main() { struct Q q; return q.v; }
Src_struct_unregistered ==
    <<"i", "n", "t", " ", "m", "a", "i", "n", "(", ")", " ", "{", " ", "s", "t", "r",
      "u", "c", "t", " ", "Q", " ", "q", ";", " ", "r", "e", "t", "u", "r", "n", " ",
      "q", ".", "v", ";", " ", "}">>

\* a @ b
Src_unrecognized ==
    <<"a", " ", "@", " ", "b">>

\* The type names that follow '(' in the cast inputs: one led by each token
\* is_type_keyword accepts, and the `int*` of the repository's cast test, each
\* with the CType it denotes.
CastTypes ==
    <<[src |-> <<"i", "n", "t">>, typ |-> Ty("Int")],
      [src |-> <<"c", "h", "a", "r">>, typ |-> Ty("Char")],
      [src |-> <<"f", "l", "o", "a", "t">>, typ |-> Ty("Float")],
      [src |-> <<"d", "o", "u", "b", "l", "e">>, typ |-> Ty("Double")],
      [src |-> <<"v", "o", "i", "d">>, typ |-> Ty("Void")],
      [src |-> <<"l", "o", "n", "g">>, typ |-> Ty("Long")],
      [src |-> <<"s", "h", "o", "r", "t">>, typ |-> Ty("Short")],
      [src |-> <<"u", "n", "s", "i", "g", "n", "e", "d">>, typ |-> Ty("UnsignedInt")],
      [src |-> <<"s", "i", "g", "n", "e", "d">>, typ |-> Ty("SignedInt")],
      [src |-> <<"c", "o", "n", "s", "t">>, typ |-> Const(Ty("Int"))],
      [src |-> <<"v", "o", "l", "a", "t", "i", "l", "e">>, typ |-> Volatile(Ty("Int"))],
      [src |-> <<"s", "t", "r", "u", "c", "t", " ", "S">>, typ |-> Named("Struct", "S")],
      [src |-> <<"u", "n", "i", "o", "n", " ", "U">>, typ |-> Named("Union", "U")],
      [src |-> <<"e", "n", "u", "m", " ", "E">>, typ |-> Named("Enum", "E")],
      [src |-> <<"i", "n", "t", "*">>, typ |-> Pointer(Ty("Int"))]>>

\* int y = (<type>)x;
CastSrc(i) ==
    <<"i", "n", "t", " ", "y", " ", "=", " ", "(">> \o CastTypes[i].src \o <<")", "x", ";">>

CastFamily == {CastSrc(i) : i \in DOMAIN CastTypes}

\* Top-level declarations `int g<suffix><rest>`.  function: the declarator's
\* name is followed by '('; params: the parameter types written there.
DeclSuffixes ==
    <<[src |-> <<>>, function |-> FALSE, params |-> <<>>],
      [src |-> <<"[", "3", "]">>, function |-> FALSE, params |-> <<>>],
      [src |-> <<"(", ")">>, function |-> TRUE, params |-> <<>>],
      [src |-> <<"(", "i", "n", "t", " ", "a", ")">>, function |-> TRUE, params |-> <<Ty("Int")>>],
      [src |-> <<"(", "i", "n", "t", " ", "a", ",", " ", "c", "h", "a", "r", " ", "b", ")">>, function |-> TRUE,
       params |-> <<Ty("Int"), Ty("Char")>>]>>

\* What follows the declarator: ';', an initializer, or a body in braces.
DeclRests ==
    <<[src |-> <<";">>, rest |-> "semicolon"],
      [src |-> <<" ", "=", " ", "1", ";">>, rest |-> "init"],
      [src |-> <<" ", "{", " ", "}">>, rest |-> "body", body |-> <<>>],
      [src |-> <<" ", "{", " ", "r", "e", "t", "u", "r", "n", " ", "0", ";", " ", "}">>, rest |-> "body",
       body |-> <<Return(Some(IntLiteral(0)))>>]>>

DeclSrc(i, j) == <<"i", "n", "t", " ", "g">> \o DeclSuffixes[i].src \o DeclRests[j].src

DeclFamily == {DeclSrc(i, j) : i \in DOMAIN DeclSuffixes, j \in DOMAIN DeclRests}

Scenarios ==
    {Src_fn_pointer,
     Src_pointer_fn,
     Src_typedef_use,
     Src_no_typedef,
     Src_cast_typedef,
     Src_cast_no_typedef,
     Src_cast_malloc,
     Src_add_mul,
     Src_mul_add,
     Src_assign_chain,
     Src_missing_rparen,
     Src_add,
     Src_struct_point,
     Src_struct_unregistered,
     Src_unrecognized}

\* int a; int = 1; int c;
Src_err_declarator ==
    <<"i", "n", "t", " ", "a", ";", " ", "i", "n", "t", " ", "=", " ", "1", ";", " ", "i",
      "n", "t", " ", "c", ";">>

\* int f() { x = ; } int g;
Src_err_expression ==
    <<"i", "n", "t", " ", "f", "(", ")", " ", "{", " ", "x", " ", "=", " ", ";", " ", "}",
      " ", "i", "n", "t", " ", "g", ";">>

\* int f() { return 1 } int g;
Src_err_semicolon ==
    <<"i", "n", "t", " ", "f", "(", ")", " ", "{", " ", "r", "e", "t", "u", "r", "n", " ",
      "1", " ", "}", " ", "i", "n", "t", " ", "g", ";">>

\* int a; int f() { a.1; } int g;
Src_err_member ==
    <<"i", "n", "t", " ", "a", ";", " ", "i", "n", "t", " ", "f", "(", ")", " ", "{", " ",
      "a", ".", "1", ";", " ", "}", " ", "i", "n", "t", " ", "g", ";">>

\* struct S { int x; int } ; int g;
Src_err_struct ==
    <<"s", "t", "r", "u", "c", "t", " ", "S", " ", "{", " ", "i", "n", "t", " ", "x", ";",
      " ", "i", "n", "t", " ", "}", " ", ";", " ", "i", "n", "t", " ", "g", ";">>

\* malformed programs: the error arises in a different routine in each
ErrorScenarios ==
    {Src_err_declarator,
     Src_err_expression,
     Src_err_semicolon,
     Src_err_member,
     Src_err_struct}

\* int a = { 1, { 2 }
Src_loop_brace_eof ==
    <<"i", "n", "t", " ", "a", " ", "=", " ", "{", " ", "1", ",", " ", "{", " ", "2", " ",
      "}">>

\* int f() { { x;
Src_loop_block_eof ==
    <<"i", "n", "t", " ", "f", "(", ")", " ", "{", " ", "{", " ", "x", ";">>

\* struct S { int x;
Src_loop_struct_eof ==
    <<"s", "t", "r", "u", "c", "t", " ", "S", " ", "{", " ", "i", "n", "t", " ", "x", ";">>

\* enum E { A, B
Src_loop_enum_eof ==
    <<"e", "n", "u", "m", " ", "E", " ", "{", " ", "A", ",", " ", "B">>

\* int f() { switch (x) { case 1: { y; } } }
Src_loop_switch ==
    <<"i", "n", "t", " ", "f", "(", ")", " ", "{", " ", "s", "w", "i", "t", "c", "h", " ",
      "(", "x", ")", " ", "{", " ", "c", "a", "s", "e", " ", "1", ":", " ", "{", " ", "y",
      ";", " ", "}", " ", "}", " ", "}">>

\* programs whose loops run into the end of the input, or over a switch block
LoopScenarios ==
    {Src_loop_brace_eof,
     Src_loop_block_eof,
     Src_loop_struct_eof,
     Src_loop_enum_eof,
     Src_loop_switch}

\* typedef int A; typedef A B; B x;
Src_typedef_chain ==
    <<"t", "y", "p", "e", "d", "e", "f", " ", "i", "n", "t", " ", "A", ";", " ", "t", "y",
      "p", "e", "d", "e", "f", " ", "A", " ", "B", ";", " ", "B", " ", "x", ";">>

\* typedef int T
Src_typedef_no_semicolon ==
    <<"t", "y", "p", "e", "d", "e", "f", " ", "i", "n", "t", " ", "T">>

\* typedef int A, 5;
Src_typedef_bad_second ==
    <<"t", "y", "p", "e", "d", "e", "f", " ", "i", "n", "t", " ", "A", ",", " ", "5", ";">>

\* typedef struct S { int x; } P
Src_typedef_struct_no_semicolon ==
    <<"t", "y", "p", "e", "d", "e", "f", " ", "s", "t", "r", "u", "c", "t", " ", "S", " ",
      "{", " ", "i", "n", "t", " ", "x", ";", " ", "}", " ", "P">>

\* typedef int A, *B; B y;
Src_typedef_two_names ==
    <<"t", "y", "p", "e", "d", "e", "f", " ", "i", "n", "t", " ", "A", ",", " ", "*", "B",
      ";", " ", "B", " ", "y", ";">>

\* typedef declarations, well formed and not
TypedefScenarios ==
    {Src_typedef_chain,
     Src_typedef_no_semicolon,
     Src_typedef_bad_second,
     Src_typedef_struct_no_semicolon,
     Src_typedef_two_names}

\* int n = sizeof(struct Node);
Src_sizeof_struct_node ==
    <<"i", "n", "t", " ", "n", " ", "=", " ", "s", "i", "z", "e", "o", "f", "(", "s", "t",
      "r", "u", "c", "t", " ", "N", "o", "d", "e", ")", ";">>

\* typedef int MyInt; int n = sizeof(MyInt);
Src_sizeof_typedef ==
    <<"t", "y", "p", "e", "d", "e", "f", " ", "i", "n", "t", " ", "M", "y", "I", "n", "t",
      ";", " ", "i", "n", "t", " ", "n", " ", "=", " ", "s", "i", "z", "e", "o", "f", "(",
      "M", "y", "I", "n", "t", ")", ";">>

\* int n = sizeof(MyInt);
Src_sizeof_identifier ==
    <<"i", "n", "t", " ", "n", " ", "=", " ", "s", "i", "z", "e", "o", "f", "(", "M", "y",
      "I", "n", "t", ")", ";">>

\* int n = sizeof(a + b);
Src_sizeof_expr ==
    <<"i", "n", "t", " ", "n", " ", "=", " ", "s", "i", "z", "e", "o", "f", "(", "a", " ",
      "+", " ", "b", ")", ";">>

\* int n = sizeof x;
Src_sizeof_unary ==
    <<"i", "n", "t", " ", "n", " ", "=", " ", "s", "i", "z", "e", "o", "f", " ", "x", ";">>

\* int n = sizeof *p + 1;
Src_sizeof_deref ==
    <<"i", "n", "t", " ", "n", " ", "=", " ", "s", "i", "z", "e", "o", "f", " ", "*", "p",
      " ", "+", " ", "1", ";">>

\* sizeof applied to a type, to a parenthesized expression, to a unary expression
SizeofScenarios ==
    {Src_sizeof_struct_node,
     Src_sizeof_typedef,
     Src_sizeof_identifier,
     Src_sizeof_expr,
     Src_sizeof_unary,
     Src_sizeof_deref}

\* int n = sizeof(<type>);
SizeofSrc(i) ==
    <<"i", "n", "t", " ", "n", " ", "=", " ", "s", "i", "z", "e", "o", "f", "(">>
        \o CastTypes[i].src \o <<")", ";">>

SizeofFamily == {SizeofSrc(i) : i \in DOMAIN CastTypes}

\* int n = a[i].m->n++;
Src_postfix_chain ==
    <<"i", "n", "t", " ", "n", " ", "=", " ", "a", "[", "i", "]", ".", "m", "-", ">", "n",
      "+", "+", ";">>

\* int n = a--[1].m;
Src_postfix_post_then_index ==
    <<"i", "n", "t", " ", "n", " ", "=", " ", "a", "-", "-", "[", "1", "]", ".", "m", ";">>

\* int n = a[i] + b.m;
Src_postfix_stop ==
    <<"i", "n", "t", " ", "n", " ", "=", " ", "a", "[", "i", "]", " ", "+", " ", "b", ".",
      "m", ";">>

\* int n = a.;
Src_postfix_dot_error ==
    <<"i", "n", "t", " ", "n", " ", "=", " ", "a", ".", ";">>

\* int n = p->2;
Src_postfix_arrow_error ==
    <<"i", "n", "t", " ", "n", " ", "=", " ", "p", "-", ">", "2", ";">>

\* postfix operators after a primary expression
PostfixScenarios ==
    {Src_postfix_chain,
     Src_postfix_post_then_index,
     Src_postfix_stop,
     Src_postfix_dot_error,
     Src_postfix_arrow_error}

\* int n = --*p;
Src_prefix_dec_deref ==
    <<"i", "n", "t", " ", "n", " ", "=", " ", "-", "-", "*", "p", ";">>

\* int n = *p++;
Src_prefix_deref_post ==
    <<"i", "n", "t", " ", "n", " ", "=", " ", "*", "p", "+", "+", ";">>

\* int f() { *p = 100; }
Src_prefix_deref_assign ==
    <<"i", "n", "t", " ", "f", "(", ")", " ", "{", " ", "*", "p", " ", "=", " ", "1", "0",
      "0", ";", " ", "}">>

\* int n = -!~&x;
Src_prefix_chain ==
    <<"i", "n", "t", " ", "n", " ", "=", " ", "-", "!", "~", "&", "x", ";">>

\* int n = ++x--;
Src_prefix_pre_post ==
    <<"i", "n", "t", " ", "n", " ", "=", " ", "+", "+", "x", "-", "-", ";">>

\* prefix operators, alone and next to postfix operators and assignment
PrefixScenarios ==
    {Src_prefix_dec_deref,
     Src_prefix_deref_post,
     Src_prefix_deref_assign,
     Src_prefix_chain,
     Src_prefix_pre_post}

\* Each prefix operator of parse_unary with the UnaryOp it stands for.
PrefixOps ==
    <<[src |-> <<"-">>, op |-> "Neg"],
      [src |-> <<"!">>, op |-> "Not"],
      [src |-> <<"~">>, op |-> "BitNot"],
      [src |-> <<"*">>, op |-> "Deref"],
      [src |-> <<"&">>, op |-> "AddressOf"],
      [src |-> <<"+", "+">>, op |-> "PreIncrement"],
      [src |-> <<"-", "-">>, op |-> "PreDecrement"]>>

\* int n = <op><op2>x;
PrefixSrc(i, j) ==
    <<"i", "n", "t", " ", "n", " ", "=", " ">> \o PrefixOps[i].src \o <<" ">>
        \o PrefixOps[j].src \o <<"x", ";">>

PrefixFamily == {PrefixSrc(i, j) : i, j \in DOMAIN PrefixOps}

\* T x;
Src_ident_not_type ==
    <<"T", " ", "x", ";">>

\* unsigned x;
Src_ident_after_specifier ==
    <<"u", "n", "s", "i", "g", "n", "e", "d", " ", "x", ";">>

\* static y;
Src_ident_after_storage ==
    <<"s", "t", "a", "t", "i", "c", " ", "y", ";">>

\* typedef int T; T U;
Src_ident_after_typedef ==
    <<"t", "y", "p", "e", "d", "e", "f", " ", "i", "n", "t", " ", "T", ";", " ", "T", " ",
      "U", ";">>

\* int f() { struct { int x; } v; }
Src_inline_struct_body ==
    <<"i", "n", "t", " ", "f", "(", ")", " ", "{", " ", "s", "t", "r", "u", "c", "t", " ",
      "{", " ", "i", "n", "t", " ", "x", ";", " ", "}", " ", "v", ";", " ", "}">>

\* identifiers where a type specifier could stand
TypeNameScenarios ==
    {Src_ident_not_type,
     Src_ident_after_specifier,
     Src_ident_after_storage,
     Src_ident_after_typedef,
     Src_inline_struct_body}

\* A local declaration led by each type keyword, qualifier, storage class and
\* aggregate introducer.
LocalDecls ==
    <<<<"i", "n", "t", " ", "v">>,
      <<"c", "h", "a", "r", " ", "v">>,
      <<"f", "l", "o", "a", "t", " ", "v">>,
      <<"d", "o", "u", "b", "l", "e", " ", "v">>,
      <<"v", "o", "i", "d", " ", "*", "v">>,
      <<"l", "o", "n", "g", " ", "v">>,
      <<"s", "h", "o", "r", "t", " ", "v">>,
      <<"u", "n", "s", "i", "g", "n", "e", "d", " ", "v">>,
      <<"s", "i", "g", "n", "e", "d", " ", "v">>,
      <<"c", "o", "n", "s", "t", " ", "i", "n", "t", " ", "v">>,
      <<"v", "o", "l", "a", "t", "i", "l", "e", " ", "i", "n", "t", " ", "v">>,
      <<"s", "t", "a", "t", "i", "c", " ", "i", "n", "t", " ", "v">>,
      <<"e", "x", "t", "e", "r", "n", " ", "i", "n", "t", " ", "v">>,
      <<"a", "u", "t", "o", " ", "i", "n", "t", " ", "v">>,
      <<"r", "e", "g", "i", "s", "t", "e", "r", " ", "i", "n", "t", " ", "v">>,
      <<"s", "t", "r", "u", "c", "t", " ", "S", " ", "v">>,
      <<"u", "n", "i", "o", "n", " ", "U", " ", "v">>,
      <<"e", "n", "u", "m", " ", "E", " ", "v">>>>

\* int f() { <declaration>; }
LocalDeclSrc(i) ==
    <<"i", "n", "t", " ", "f", "(", ")", " ", "{", " ">> \o LocalDecls[i] \o <<";", " ", "}">>

LocalDeclFamily == {LocalDeclSrc(i) : i \in DOMAIN LocalDecls}

\* typedef int T; int f() { T v; }
Src_local_typedef_decl ==
    <<"t", "y", "p", "e", "d", "e", "f", " ", "i", "n", "t", " ", "T", ";", " ", "i", "n", "t", " ", "f", "(", ")", " ", "{", " ", "T", " ", "v", ";", " ", "}">>

\* int f() { int a = 1; }
Src_local_one ==
    <<"i", "n", "t", " ", "f", "(", ")", " ", "{", " ", "i", "n", "t", " ", "a", " ", "=",
      " ", "1", ";", " ", "}">>

\* int f() { int a, b; }
Src_local_two ==
    <<"i", "n", "t", " ", "f", "(", ")", " ", "{", " ", "i", "n", "t", " ", "a", ",", " ",
      "b", ";", " ", "}">>

\* int f() { int a = 1, b, c = 2; }
Src_local_three_init ==
    <<"i", "n", "t", " ", "f", "(", ")", " ", "{", " ", "i", "n", "t", " ", "a", " ", "=",
      " ", "1", ",", " ", "b", ",", " ", "c", " ", "=", " ", "2", ";", " ", "}">>

\* typedef int T; int f() { T a, b; }
Src_local_typedef_two ==
    <<"t", "y", "p", "e", "d", "e", "f", " ", "i", "n", "t", " ", "T", ";", " ", "i", "n",
      "t", " ", "f", "(", ")", " ", "{", " ", "T", " ", "a", ",", " ", "b", ";", " ", "}">>

\* local declarations with one and with several declarators
LocalMultiScenarios ==
    {Src_local_one,
     Src_local_two,
     Src_local_three_init,
     Src_local_typedef_two}

\* int f(int a, ...);
Src_variadic ==
    <<"i", "n", "t", " ", "f", "(", "i", "n", "t", " ", "a", ",", " ", ".", ".", ".", ")",
      ";">>

\* int f(int a);
Src_one_param ==
    <<"i", "n", "t", " ", "f", "(", "i", "n", "t", " ", "a", ")", ";">>

\* parameter lists with and without a trailing `...`
VariadicScenarios ==
    {Src_variadic,
     Src_one_param}

\* '\n'
Src_char_escape ==
    <<"'", "\\", "n", "'">>

\* "a\tb"
Src_string_escape ==
    <<"\"", "a", "\\", "t", "b", "\"">>

\* "\n\\\"\q"
Src_string_escapes ==
    <<"\"", "\\", "n", "\\", "\\", "\\", "\"", "\\", "q", "\"">>

\* literals with a backslash escape
EscapeScenarios ==
    {Src_char_escape,
     Src_string_escape,
     Src_string_escapes}

\* 2147483647
Src_int_max ==
    <<"2", "1", "4", "7", "4", "8", "3", "6", "4", "7">>

\* 2147483648
Src_int_over ==
    <<"2", "1", "4", "7", "4", "8", "3", "6", "4", "8">>

\* x = 99999999999;
Src_int_long ==
    <<"x", " ", "=", " ", "9", "9", "9", "9", "9", "9", "9", "9", "9", "9", "9", ";">>

\* x = 42;
Src_int_small ==
    <<"x", " ", "=", " ", "4", "2", ";">>

\* x = 3.25;
Src_float ==
    <<"x", " ", "=", " ", "3", ".", "2", "5", ";">>

\* digit runs around the 32-bit signed range, and with a decimal point
NumberScenarios ==
    {Src_int_max,
     Src_int_over,
     Src_int_long,
     Src_int_small,
     Src_float}

\* typedef int T; typedef int T;
Src_rebind_typedef ==
    <<"t", "y", "p", "e", "d", "e", "f", " ", "i", "n", "t", " ", "T", ";", " ", "t", "y",
      "p", "e", "d", "e", "f", " ", "i", "n", "t", " ", "T", ";">>

\* typedef int T; int T;
Src_rebind_global ==
    <<"t", "y", "p", "e", "d", "e", "f", " ", "i", "n", "t", " ", "T", ";", " ", "i", "n",
      "t", " ", "T", ";">>

\* typedef int T; int f() { char T; }
Src_rebind_local ==
    <<"t", "y", "p", "e", "d", "e", "f", " ", "i", "n", "t", " ", "T", ";", " ", "i", "n",
      "t", " ", "f", "(", ")", " ", "{", " ", "c", "h", "a", "r", " ", "T", ";", " ", "}">>

\* typedef int T; int *T;
Src_rebind_pointer ==
    <<"t", "y", "p", "e", "d", "e", "f", " ", "i", "n", "t", " ", "T", ";", " ", "i", "n",
      "t", " ", "*", "T", ";">>

\* declarations of a name that is a typedef name already
RebindScenarios ==
    {Src_rebind_typedef,
     Src_rebind_global,
     Src_rebind_local,
     Src_rebind_pointer}

\* int f() { int *a, b; }
Src_local_star_two ==
    <<"i", "n", "t", " ", "f", "(", ")", " ", "{", " ", "i", "n", "t", " ", "*", "a", ",",
      " ", "b", ";", " ", "}">>

\* int f() { char **a, b, *c; }
Src_local_star_three ==
    <<"i", "n", "t", " ", "f", "(", ")", " ", "{", " ", "c", "h", "a", "r", " ", "*", "*",
      "a", ",", " ", "b", ",", " ", "*", "c", ";", " ", "}">>

\* int f() { int a, *b; }
Src_local_no_star ==
    <<"i", "n", "t", " ", "f", "(", ")", " ", "{", " ", "i", "n", "t", " ", "a", ",", " ",
      "*", "b", ";", " ", "}">>

\* several declarators after a specifier run followed by `*`
SharedStarScenarios ==
    {Src_local_star_two,
     Src_local_star_three,
     Src_local_no_star}

\* int a = 1, b = 2;
Src_global_two ==
    <<"i", "n", "t", " ", "a", " ", "=", " ", "1", ",", " ", "b", " ", "=", " ", "2", ";">>

\* int a, b[3], *c = 0; int d;
Src_global_three ==
    <<"i", "n", "t", " ", "a", ",", " ", "b", "[", "3", "]", ",", " ", "*", "c", " ", "=",
      " ", "0", ";", " ", "i", "n", "t", " ", "d", ";">>

\* top-level variable declarations with several declarators
GlobalMultiScenarios ==
    {Src_global_two,
     Src_global_three}

Corpus ==
    Scenarios \cup CastFamily \cup DeclFamily \cup ErrorScenarios \cup LoopScenarios
    \cup TypedefScenarios \cup SizeofScenarios \cup SizeofFamily
    \cup PostfixScenarios \cup PrefixScenarios \cup PrefixFamily
    \cup TypeNameScenarios \cup LocalDeclFamily \cup {Src_local_typedef_decl}
    \cup LocalMultiScenarios \cup VariadicScenarios
    \cup EscapeScenarios \cup NumberScenarios
    \cup RebindScenarios \cup SharedStarScenarios
    \cup GlobalMultiScenarios

\* the state Lexer::new and Parser::new leave: nothing read, nothing parsed
Start ==
    /\ lex_pos = 0
    /\ tokens = <<>>
    /\ starts = <<>>
    /\ pos = 0
    /\ typedef_names = {}
    /\ declarations = <<>>
    /\ status = "lexing"
    /\ error = NoError

Init == input \in Corpus /\ Start

Spec == Init /\ [][Next]_vars

\* parse_program's loop is at a declaration: the condition under which
\* ParseDeclaration takes a step, which ends the parse or pushes a declaration
AtDeclaration == status = "parsing" /\ current_token(pos) # Eof

\* The program runs on: neither tokenize nor parse_program waits for anything.
\* The last conjunct is WF_vars(ParseDeclaration) with AtDeclaration written
\* for ENABLED <<ParseDeclaration>>_vars.
SpecLive ==
    /\ Spec
    /\ WF_vars(LexStep)
    /\ WF_vars(ParseProgramOk)
    /\ ([]<>~AtDeclaration \/ []<><<ParseDeclaration>>_vars)

(***************************************************************************)
(* Compound assignments: `int f() { <l> OP= <r>; }` and the hand-written   *)
(* `int f() { <l> = <l> OP <r>; }`.  An operand is given with the AST it   *)
(* denotes.                                                                *)
(***************************************************************************)
\* the most '*' written in front of an operand
MaxPrefix == 1

OperandAtoms ==
    <<[src |-> <<"a">>, ast |-> Identifier("a")],
      [src |-> <<"x", "[", "1", "]">>,
       ast |-> ArrayAccess(Identifier("x"), IntLiteral(1))],
      [src |-> <<"(", "b", " ", "+", " ", "c", ")">>,
       ast |-> Binary("Add", Identifier("b"), Identifier("c"))],
      [src |-> <<"7">>, ast |-> IntLiteral(7)],
      [src |-> <<"s", ".", "m">>, ast |-> MemberAccess(Identifier("s"), "m")]>>

RECURSIVE Starred(_, _)
Starred(o, n) ==
    IF n = 0 THEN o
    ELSE LET inner == Starred(o, n - 1)
         IN  [src |-> <<"*">> \o inner.src, ast |-> Unary("Deref", inner.ast)]

Operands == {Starred(OperandAtoms[i], n) : i \in DOMAIN OperandAtoms, n \in 0..MaxPrefix}

\* right-hand sides that are not operands of a binary operator
RhsExprs ==
    {[src |-> <<"b", " ", "+", " ", "c">>,
      ast |-> Binary("Add", Identifier("b"), Identifier("c"))],
     [src |-> <<"c", " ", "=", " ", "d">>,
      ast |-> Assignment(Identifier("c"), Identifier("d"))],
     [src |-> <<"b", " ", "?", " ", "c", " ", ":", " ", "d">>,
      ast |-> Ternary(Identifier("b"), Identifier("c"), Identifier("d"))]}

\* the ten operators OP with a compound form OP=, and the BinaryOp each denotes
CompoundOperators ==
    <<[plain |-> <<"+">>, op |-> "Add"],
      [plain |-> <<"-">>, op |-> "Sub"],
      [plain |-> <<"*">>, op |-> "Mul"],
      [plain |-> <<"/">>, op |-> "Div"],
      [plain |-> <<"%">>, op |-> "Mod"],
      [plain |-> <<"&">>, op |-> "BitAnd"],
      [plain |-> <<"|">>, op |-> "BitOr"],
      [plain |-> <<"^">>, op |-> "BitXor"],
      [plain |-> <<"<", "<">>, op |-> "LeftShift"],
      [plain |-> <<">", ">">>, op |-> "RightShift"]>>

InFunction(stmt) == <<"i", "n", "t", " ", "f", "(", ")", " ", "{", " ">> \o stmt \o <<";", " ", "}">>

CompoundSrc(l, o, r) ==
    InFunction(l.src \o <<" ">> \o o.plain \o <<"=", " ">> \o r.src)

PlainSrc(l, o, r) ==
    InFunction(l.src \o <<" ", "=", " ">> \o l.src \o <<" ">> \o o.plain \o <<" ">> \o r.src)

CompoundFamily ==
    {CompoundSrc(l, CompoundOperators[i], r) :
        l \in Operands, i \in DOMAIN CompoundOperators, r \in Operands \cup RhsExprs}

PlainFamily ==
    {PlainSrc(l, CompoundOperators[i], r) :
        l \in Operands, i \in DOMAIN CompoundOperators, r \in Operands}

InitCompound == input \in CompoundFamily \cup PlainFamily /\ Start

SpecCompound == InitCompound /\ [][Next]_vars

(***************************************************************************)
(* Lexer inputs: every text of at most MaxLexLen characters of LexAlphabet *)
(***************************************************************************)
MaxLexLen == 4

\* a letter, a digit, a blank, a character that starts no token, operator
\* characters that combine, and the two quotes
LexAlphabet == {"a", "1", " ", "@", "+", "=", "<", "\"", "'"}

RECURSIVE Texts(_)
Texts(n) ==
    IF n = 0 THEN {<<>>}
    ELSE Texts(n - 1) \cup
         {Append(t, c) : t \in {u \in Texts(n - 1) : Len(u) = n - 1}, c \in LexAlphabet}

InitLex == input \in Texts(MaxLexLen) /\ Start

SpecLex == InitLex /\ [][Next]_vars

(***************************************************************************)
(* Specifier runs: `int n = sizeof(<specifier> ... <specifier>);` for      *)
(* every run of at most MaxRun of the specifiers below, after              *)
(* `typedef int T;` when the run names T.                                  *)
(***************************************************************************)
MaxRun == 3

\* a specifier as it is written, the token it starts with, and the base type
\* it names if it names one
SpecifierWords ==
    <<[src |-> <<"c", "h", "a", "r">>, tag |-> "Char", base |-> None],
      [src |-> <<"d", "o", "u", "b", "l", "e">>, tag |-> "Double", base |-> None],
      [src |-> <<"f", "l", "o", "a", "t">>, tag |-> "Float", base |-> None],
      [src |-> <<"v", "o", "i", "d">>, tag |-> "Void", base |-> None],
      [src |-> <<"s", "h", "o", "r", "t">>, tag |-> "Short", base |-> None],
      [src |-> <<"l", "o", "n", "g">>, tag |-> "Long", base |-> None],
      [src |-> <<"u", "n", "s", "i", "g", "n", "e", "d">>, tag |-> "Unsigned", base |-> None],
      [src |-> <<"s", "i", "g", "n", "e", "d">>, tag |-> "Signed", base |-> None],
      [src |-> <<"i", "n", "t">>, tag |-> "Int", base |-> None],
      [src |-> <<"s", "t", "r", "u", "c", "t", " ", "S">>, tag |-> "Struct", base |-> Some(Named("Struct", "S"))],
      [src |-> <<"T">>, tag |-> "Identifier", base |-> Some(Named("Typedef", "T"))]>>

SpecifierRuns == UNION {[1..k -> DOMAIN SpecifierWords] : k \in 1..MaxRun}

RECURSIVE RunText(_)
RunText(run) ==
    IF run = <<>> THEN <<>>
    ELSE SpecifierWords[Head(run)].src \o <<" ">> \o RunText(Tail(run))

\* typedef int T;
Src_typedef_T ==
    <<"t", "y", "p", "e", "d", "e", "f", " ", "i", "n", "t", " ", "T", ";", " ">>

RunSrc(run) ==
    (IF \E i \in DOMAIN run : SpecifierWords[run[i]].tag = "Identifier"
     THEN Src_typedef_T ELSE <<>>)
        \o <<"i", "n", "t", " ", "n", " ", "=", " ", "s", "i", "z", "e", "o", "f", "(">>
        \o RunText(run) \o <<")", ";">>

SpecifierFamily == {RunSrc(run) : run \in SpecifierRuns}

InitType == input \in SpecifierFamily /\ Start

SpecType == InitType /\ [][Next]_vars

(***************************************************************************)
(* Binary operators: `int n = a <op> b <op> c;` for every pair of binary   *)
(* operators.                                                              *)
(***************************************************************************)
\* a binary operator as it is written, its BinaryOp, and the level of the
\* ladder that matches it, from the loosest (1, parse_logical) to the
\* tightest (8, parse_multiplicative)
LadderOps ==
    <<[src |-> <<"&", "&">>, op |-> "And", level |-> 1],
      [src |-> <<"|", "|">>, op |-> "Or", level |-> 1],
      [src |-> <<"|">>, op |-> "BitOr", level |-> 2],
      [src |-> <<"^">>, op |-> "BitXor", level |-> 3],
      [src |-> <<"&">>, op |-> "BitAnd", level |-> 4],
      [src |-> <<"=", "=">>, op |-> "Eq", level |-> 5],
      [src |-> <<"!", "=">>, op |-> "Ne", level |-> 5],
      [src |-> <<"<">>, op |-> "Lt", level |-> 5],
      [src |-> <<">">>, op |-> "Gt", level |-> 5],
      [src |-> <<"<", "=">>, op |-> "Le", level |-> 5],
      [src |-> <<">", "=">>, op |-> "Ge", level |-> 5],
      [src |-> <<"<", "<">>, op |-> "LeftShift", level |-> 6],
      [src |-> <<">", ">">>, op |-> "RightShift", level |-> 6],
      [src |-> <<"+">>, op |-> "Add", level |-> 7],
      [src |-> <<"-">>, op |-> "Sub", level |-> 7],
      [src |-> <<"*">>, op |-> "Mul", level |-> 8],
      [src |-> <<"/">>, op |-> "Div", level |-> 8],
      [src |-> <<"%">>, op |-> "Mod", level |-> 8]>>

\* int n = a
Src_ladder_head ==
    <<"i", "n", "t", " ", "n", " ", "=", " ", "a", " ">>

LadderSrc(i, j) ==
    Src_ladder_head \o LadderOps[i].src \o <<" ", "b", " ">> \o LadderOps[j].src
        \o <<" ", "c", ";">>

LadderFamily == {LadderSrc(i, j) : i, j \in DOMAIN LadderOps}

InitLadder == input \in LadderFamily /\ Start

SpecLadder == InitLadder /\ [][Next]_vars

(***************************************************************************)
(* Operator inputs: every text of at most MaxOpLen characters of           *)
(* OpAlphabet, and the two texts `a<<=b` and `a+++b`.                      *)
(***************************************************************************)
MaxOpLen == 4

\* the characters of the operators that share a first character, and a letter
OpAlphabet == {"<", ">", "=", "+", "-", "&", "|", "!", "a"}

RECURSIVE OpTexts(_)
OpTexts(n) ==
    IF n = 0 THEN {<<>>}
    ELSE OpTexts(n - 1) \cup
         {Append(t, c) : t \in {u \in OpTexts(n - 1) : Len(u) = n - 1}, c \in OpAlphabet}

\* a<<=b
Src_shift_assign ==
    <<"a", "<", "<", "=", "b">>

\* a+++b
Src_plus_plus_plus ==
    <<"a", "+", "+", "+", "b">>

InitOps == input \in OpTexts(MaxOpLen) \cup {Src_shift_assign, Src_plus_plus_plus} /\ Start

SpecOps == InitOps /\ [][Next]_vars

(***************************************************************************)
(* Skipped blocks: a text for each use of skip_brace_block, with the       *)
(* characters of the `{` that opens the skipped block and of the `}` that  *)
(* closes it, and every cut of the text that ends between the two.        *)
(***************************************************************************)
SkippedBlocks ==
    <<\* int a = { 1, { 2 } };
      [src |-> <<"i", "n", "t", " ", "a", " ", "=", " ", "{", " ", "1", ",", " ", "{",
               " ", "2", " ", "}", " ", "}", ";">>,
       open |-> 9, close |-> 20],
      \* int f() { int a = { 1, { 2 } }; }
      [src |-> <<"i", "n", "t", " ", "f", "(", ")", " ", "{", " ", "i", "n", "t", " ",
               "a", " ", "=", " ", "{", " ", "1", ",", " ", "{", " ", "2", " ", "}",
               " ", "}", ";", " ", "}">>,
       open |-> 19, close |-> 30],
      \* int n = (int){ 1, 2 };
      [src |-> <<"i", "n", "t", " ", "n", " ", "=", " ", "(", "i", "n", "t", ")", "{",
               " ", "1", ",", " ", "2", " ", "}", ";">>,
       open |-> 14, close |-> 21],
      \* int n = ({ x; });
      [src |-> <<"i", "n", "t", " ", "n", " ", "=", " ", "(", "{", " ", "x", ";", " ",
               "}", ")", ";">>,
       open |-> 10, close |-> 15],
      \* int n = sizeof(struct { int x; });
      [src |-> <<"i", "n", "t", " ", "n", " ", "=", " ", "s", "i", "z", "e", "o", "f",
               "(", "s", "t", "r", "u", "c", "t", " ", "{", " ", "i", "n", "t", " ",
               "x", ";", " ", "}", ")", ";">>,
       open |-> 23, close |-> 32],
      \* int f() { struct { int x; } v; }
      [src |-> <<"i", "n", "t", " ", "f", "(", ")", " ", "{", " ", "s", "t", "r", "u",
               "c", "t", " ", "{", " ", "i", "n", "t", " ", "x", ";", " ", "}", " ",
               "v", ";", " ", "}">>,
       open |-> 18, close |-> 27],
      \* typedef struct { int x; } P;
      [src |-> <<"t", "y", "p", "e", "d", "e", "f", " ", "s", "t", "r", "u", "c", "t",
               " ", "{", " ", "i", "n", "t", " ", "x", ";", " ", "}", " ", "P", ";">>,
       open |-> 16, close |-> 25],
      \* int f(union { int x; } a);
      [src |-> <<"i", "n", "t", " ", "f", "(", "u", "n", "i", "o", "n", " ", "{", " ",
               "i", "n", "t", " ", "x", ";", " ", "}", " ", "a", ")", ";">>,
       open |-> 13, close |-> 22],
      \* int f() { switch (x) { case 1: { y; } } }
      [src |-> <<"i", "n", "t", " ", "f", "(", ")", " ", "{", " ", "s", "w", "i", "t",
               "c", "h", " ", "(", "x", ")", " ", "{", " ", "c", "a", "s", "e", " ",
               "1", ":", " ", "{", " ", "y", ";", " ", "}", " ", "}", " ", "}">>,
       open |-> 22, close |-> 39],
      \* struct S { enum { A, B } e; };
      [src |-> <<"s", "t", "r", "u", "c", "t", " ", "S", " ", "{", " ", "e", "n", "u",
               "m", " ", "{", " ", "A", ",", " ", "B", " ", "}", " ", "e", ";", " ",
               "}", ";">>,
       open |-> 17, close |-> 24]>>

SkipFamily == {SkippedBlocks[i].src : i \in DOMAIN SkippedBlocks}

\* the texts that end inside a skipped block
CutFamily ==
    UNION {{SubSeq(SkippedBlocks[i].src, 1, n) :
                n \in SkippedBlocks[i].open..(SkippedBlocks[i].close - 1)} :
           i \in DOMAIN SkippedBlocks}

InitSkip == input \in SkipFamily \cup CutFamily /\ Start

SpecSkip == InitSkip /\ [][Next]_vars

(***************************************************************************)
(* Properties                                                              *)
(***************************************************************************)
\* parse_program has returned
Done == status \in {"ok", "err"}

\* the (name, type) the declarator of a leading top-level declaration binds:
\* parse_type, then parse_declarator, from the first token
LeadingDeclarator ==
    LET base == parse_type(0, typedef_names)
    IN  parse_declarator(base.pos, typedef_names, base.val)

\* C1: the declarator's type nests as C's grammar binds: in `int (*f)(int)`
\* f is a pointer to a function, Pointer(Function{Int, [Int]}), and in
\* `int *f(int)` f is a function returning a pointer,
\* Function{Pointer(Int), [Int]}; the two types differ.
C1_DeclaratorBinding ==
    (status = "parsing" /\ pos = 0) =>
        /\ input = Src_fn_pointer =>
              /\ LeadingDeclarator.ok
              /\ LeadingDeclarator.val =
                    [name |-> "f",
                     ty |-> Pointer(FunctionType(Ty("Int"), <<Ty("Int")>>))]
        /\ input = Src_pointer_fn =>
              /\ LeadingDeclarator.ok
              /\ LeadingDeclarator.val =
                    [name |-> "f",
                     ty |-> FunctionType(Pointer(Ty("Int")), <<Ty("Int")>>)]

\* C2: typedef names feed back into parsing: from the empty set,
\* `typedef int T; T x;` parses and x has type Typedef("T"), while `T x;` alone
\* fails with the expected-type error that carries Identifier(T).
C2_TypedefFeedsParsing ==
    /\ (input = Src_typedef_use /\ Done) =>
          /\ status = "ok"
          /\ declarations =
                <<DeclTypedef("T", Ty("Int")),
                  GlobalVar(Named("Typedef", "T"), "x", None)>>
    /\ (input = Src_no_typedef /\ Done) =>
          /\ status = "err"
          /\ error = ErrGot("Expected type", TkIdentifier("T"))
          /\ declarations = <<>>

C2_Witness ==
    /\ input = Src_typedef_use
    /\ status = "ok"
    /\ typedef_names = {"T"}
    /\ Len(declarations) = 2

\* C3: the typedef set alone decides between a cast and a parenthesized
\* expression: with MyInt registered `(MyInt)x` is
\* Cast{Typedef(MyInt), Identifier(x)}; with MyInt unknown `(MyInt)` is the
\* parenthesized Identifier(MyInt) and the parse fails at the identifier x;
\* '(' followed by a type keyword is a cast of the type it names.
C3_CastDecidedByTypedefSet ==
    /\ (input = Src_cast_typedef /\ Done) =>
          /\ status = "ok"
          /\ declarations[2] =
                GlobalVar(Ty("Int"), "y",
                    Some(Cast(Named("Typedef", "MyInt"), Identifier("x"))))
    /\ (input = Src_cast_no_typedef /\ Done) =>
          /\ status = "err"
          /\ parse_primary(3, typedef_names) = Ok(Identifier("MyInt"), pos)
          /\ current_token(pos) = TkIdentifier("x")
          /\ error = ErrExpected(Tk("Semicolon"), TkIdentifier("x"))
    /\ \A i \in DOMAIN CastTypes :
          (input = CastSrc(i) /\ Done) =>
              /\ status = "ok"
              /\ declarations =
                    <<GlobalVar(Ty("Int"), "y",
                          Some(Cast(CastTypes[i].typ, Identifier("x"))))>>
    /\ (input = Src_cast_malloc /\ Done) =>
          /\ status = "ok"
          /\ declarations =
                <<GlobalVar(Pointer(Ty("Int")), "p",
                      Some(Cast(Pointer(Ty("Int")), Call("malloc", <<IntLiteral(4)>>))))>>

C3_Witness ==
    /\ input = Src_cast_typedef
    /\ status = "ok"
    /\ "MyInt" \in typedef_names
    /\ declarations[2].init.v.k = "Cast"

\* BinaryOp's compound-assignment variants
CompoundAssignTags ==
    {"AddAssign", "SubAssign", "MulAssign", "DivAssign", "ModAssign", "AndAssign",
     "OrAssign", "XorAssign", "LeftShiftAssign", "RightShiftAssign"}

\* the operators of the Binary nodes of an expression
RECURSIVE BinaryOps(_)
BinaryOps(e) ==
    CASE e.k = "Binary" -> {e.op} \cup BinaryOps(e.left) \cup BinaryOps(e.right)
      [] e.k = "Unary" -> BinaryOps(e.operand)
      [] e.k = "Assignment" -> BinaryOps(e.target) \cup BinaryOps(e.value)
      [] e.k = "ArrayAccess" -> BinaryOps(e.array) \cup BinaryOps(e.index)
      [] e.k = "Ternary" ->
            BinaryOps(e.cond) \cup BinaryOps(e.then_expr) \cup BinaryOps(e.else_expr)
      [] e.k = "Cast" -> BinaryOps(e.expr)
      [] e.k \in {"MemberAccess", "PointerMemberAccess"} -> BinaryOps(e.object)
      [] e.k = "Call" -> UNION {BinaryOps(e.args[i]) : i \in DOMAIN e.args}
      [] OTHER -> {}

\* the one function holding the one expression statement `e`
FunctionOf(e) == <<DeclFunction(Ty("Int"), "f", <<>>, <<ExprStmt(e)>>)>>

\* C4: for each of the ten operators OP and operands l, r, `l OP= r` and
\* `l = l OP r` parse to the same AST, Assignment{l, Binary{OP, l, r}}; the
\* compound form gives that AST for any right-hand side; no Binary node
\* carries a compound-assignment operator.
C4_CompoundAssignmentDesugars ==
    Done =>
        /\ status = "ok"
        /\ \A l \in Operands, i \in DOMAIN CompoundOperators :
              LET o == CompoundOperators[i]
              IN  /\ \A r \in Operands :
                        input \in {CompoundSrc(l, o, r), PlainSrc(l, o, r)} =>
                            declarations =
                                FunctionOf(Assignment(l.ast, Binary(o.op, l.ast, r.ast)))
                  /\ \A r \in RhsExprs :
                        input = CompoundSrc(l, o, r) =>
                            declarations =
                                FunctionOf(Assignment(l.ast, Binary(o.op, l.ast, r.ast)))
        /\ BinaryOps(declarations[1].body[1].expr) \cap CompoundAssignTags = {}

C4_Witness ==
    /\ status = "ok"
    /\ \E l \in Operands, r \in Operands :
          /\ l # r
          /\ input = CompoundSrc(l, CompoundOperators[9], r)
          /\ declarations[1].body[1].expr.value.op = "LeftShift"

\* C5: `*` binds tighter than `+` on either side of it, and assignment
\* associates to the right: 1 + 2 * 3 is Add(1, Mul(2, 3)), 1 * 2 + 3 is
\* Add(Mul(1, 2), 3), and a = b = c is Assignment{a, Assignment{b, c}}.
C5_PrecedenceAndAssociativity ==
    /\ (input = Src_add_mul /\ Done) =>
          /\ status = "ok"
          /\ declarations[1].init =
                Some(Binary("Add", IntLiteral(1),
                            Binary("Mul", IntLiteral(2), IntLiteral(3))))
    /\ (input = Src_mul_add /\ Done) =>
          /\ status = "ok"
          /\ declarations[1].init =
                Some(Binary("Add", Binary("Mul", IntLiteral(1), IntLiteral(2)),
                            IntLiteral(3)))
    /\ (input = Src_assign_chain /\ Done) =>
          /\ status = "ok"
          /\ declarations[1].body =
                <<ExprStmt(Assignment(Identifier("a"),
                               Assignment(Identifier("b"), Identifier("c"))))>>

C5_Witness ==
    /\ input = Src_add_mul
    /\ status = "ok"
    /\ declarations[1].init.v.right.op = "Mul"

\* C6 as claimed: `int main( { return 0; }` fails with the unexpected-token
\* error that names RParen as the expected token.
C6_MissingRParenNamesRParen ==
    (input = Src_missing_rparen /\ Done) =>
        /\ status = "err"
        /\ error.msg = "Expected"
        /\ error.expected = Tk("RParen")

\* C6: `int main( { return 0; }` fails, and the error is the expected-type
\* error of the parameter list's type parser, carrying the token LBrace.
C6_MissingRParenExpectedType ==
    (input = Src_missing_rparen /\ Done) =>
        /\ status = "err"
        /\ error = ErrGot("Expected type", Tk("LBrace"))
        /\ declarations = <<>>

C6_Witness ==
    /\ input = Src_missing_rparen
    /\ status = "err"
    /\ current_token(pos) = Tk("LBrace")

C8_StructAndMemberAccess ==
    /\ (input = Src_struct_point /\ Done) =>
          /\ status = "ok"
          /\ typedef_names = {}
          /\ declarations =
                <<DeclStruct("Point",
                      <<StructField(Ty("Int"), "x"), StructField(Ty("Int"), "y")>>),
                  DeclFunction(Ty("Int"), "main", <<>>,
                      <<VarDecl(Named("Struct", "Point"), "p", None),
                        ExprStmt(Assignment(MemberAccess(Identifier("p"), "x"),
                                            IntLiteral(1))),
                        Return(Some(MemberAccess(Identifier("p"), "x")))>>)>>
    /\ (input = Src_struct_unregistered /\ Done) =>
          /\ status = "ok"
          /\ typedef_names = {}
          /\ declarations[1].body[1] = VarDecl(Named("Struct", "Q"), "q", None)

C8_Witness ==
    /\ input = Src_struct_point
    /\ status = "ok"
    /\ Len(declarations) = 2
    /\ declarations[2].body[1].k = "VarDecl"

\* C9: a character that starts no token is skipped and the tokens after it
\* are still produced: `a @ b` tokenizes to [Identifier(a), Identifier(b), Eof].
C9_UnrecognizedCharSkipped ==
    (input = Src_unrecognized /\ status # "lexing") =>
        tokens = <<TkIdentifier("a"), TkIdentifier("b"), Eof>>

\* tokenize has returned
Tokenized == status \notin {"lexing", "panic"}

\* C10: when tokenize returns, the last token is Eof and no earlier token is;
\* each token is the one that starts at its recorded first character, and the
\* first characters are in strictly increasing order.
C10_OneEofLastTokensInOrder ==
    Tokenized =>
        /\ Len(tokens) >= 1
        /\ tokens[Len(tokens)] = Eof
        /\ \A i \in 1..(Len(tokens) - 1) : tokens[i] # Eof
        /\ Len(starts) = Len(tokens)
        /\ \A i \in DOMAIN tokens : next_token(input, starts[i]).tok = tokens[i]
        /\ \A i \in DOMAIN tokens, j \in DOMAIN tokens : i < j => starts[i] < starts[j]

C10_Witness ==
    /\ Tokenized
    /\ Len(tokens) = 3
    /\ tokens[1] = TkIdentifier("a")
    /\ tokens[2] = Tk("PlusAssign")
    /\ tokens[3] = Eof

(***************************************************************************)
(* Error handling, termination and the parser's state                      *)
(***************************************************************************)
\* parse_program has returned
Returned == status \in {"ok", "err"}

\* C11: the first error a parsing routine returns ends the parse.
\* parse_program returns that error and no Program; the position stays where
\* the failing routine left it, on the token the error reports, and nothing
\* is parsed afterwards.  Ok is returned only with the position on Eof.
C11_FirstErrorAborts ==
    /\ [](status = "err" =>
            /\ parse_program_result = [ok |-> FALSE, err |-> error]
            /\ error # NoError
            /\ error.got # NoTok => current_token(pos) = error.got)
    /\ [](status = "ok" =>
            /\ parse_program_result.ok
            /\ error = NoError
            /\ current_token(pos) = Eof
            /\ pos = Len(tokens) - 1)
    /\ [][/\ ~Returned
          /\ status' = "err" =>
                LET r == call("parse_declaration", <<pos, typedef_names>>)
                IN  /\ ~r.ok
                    /\ error' = r.err
                    /\ pos' = r.pos
                    /\ declarations' = declarations]_vars

\* an error after a declaration was parsed, with tokens left behind it
C11_Witness ==
    /\ input = Src_err_declarator
    /\ status = "err"
    /\ Len(declarations) = 1
    /\ error = ErrGot("Expected typedef name", Tk("Assign"))
    /\ pos + 1 < Len(tokens)

\* C12: on every token sequence parse_program returns, Ok or Err: once the
\* tokens are there the parse ends, every iteration of parse_program's loop
\* that goes on consumes at least one token, and the position stays within
\* the token sequence.
C12_ParseTerminates ==
    /\ (status = "parsing") ~> Returned
    /\ [][(status = "parsing" /\ status' = "parsing") =>
              (pos < pos' /\ pos' < Len(tokens))]_vars

\* the parse has returned although a loop ran into the end of the input
C12_Witness ==
    /\ input \in LoopScenarios \ {Src_loop_switch}
    /\ Returned
    /\ pos = Len(tokens) - 1

\* the routines the position is followed through in C13
PositionRoutines == {"parse_type", "parse_expr", "parse_statement", "parse_declaration"}

\* C13: the parser's state moves forward only.  Parser::new leaves position 0
\* and an empty typedef set; no step lowers the position or takes a name out
\* of the typedef set; the position never exceeds the number of tokens; and
\* a routine started at any token ends at that position or after it.
C13_MonotoneState ==
    /\ [](status = "lexing" => (pos = 0 /\ typedef_names = {}))
    /\ [](pos \in 0..Len(tokens))
    /\ [][pos <= pos' /\ typedef_names \subseteq typedef_names']_vars
    /\ [](status = "parsing" =>
            \A p \in 0..Len(tokens), m \in PositionRoutines :
                LET r == call(m, <<p, typedef_names>>)
                IN  /\ p <= r.pos
                    /\ r.pos <= Len(tokens)
                    /\ m = "parse_declaration" => typedef_names \subseteq r.td)

\* a parse under way with two names registered
C13_Witness ==
    /\ input = Src_typedef_chain
    /\ status = "parsing"
    /\ pos = 8
    /\ typedef_names = {"A", "B"}

\* the names of the typedef declarations parsed so far
DeclaredTypedefNames ==
    {declarations[i].name : i \in {j \in DOMAIN declarations : declarations[j].k = "Typedef"}}

\* C14: a typedef declaration that fails registers no name.  After the parse
\* of `typedef int T` (no `;`), of `typedef int A, 5;` or of
\* `typedef struct S { int x; } P` has failed, the typedef set holds only the
\* names of the typedef declarations parsed before it: none.
C14_TypedefOnlyOnSuccess ==
    (status = "err" /\ input \in TypedefScenarios) => typedef_names = DeclaredTypedefNames

(***************************************************************************)
(* sizeof, postfix and prefix operators                                    *)
(***************************************************************************)
\* the one declaration of an input `int n = <init>;`
GlobalN(init) == <<GlobalVar(Ty("Int"), "n", Some(init))>>

\* C15: sizeof followed by '(' and a type token (a type keyword, a
\* qualifier, struct/union/enum, a name in the typedef set) is SizeOf of that
\* type; sizeof of a parenthesized expression or of a unary expression
\* parses the operand, drops it and is Null.
C15_SizeofTypeOrNull ==
    Done =>
        /\ \A i \in DOMAIN CastTypes :
              input = SizeofSrc(i) =>
                  status = "ok" /\ declarations = GlobalN(SizeOf(CastTypes[i].typ))
        /\ input = Src_sizeof_struct_node =>
              status = "ok" /\ declarations = GlobalN(SizeOf(Named("Struct", "Node")))
        /\ input = Src_sizeof_typedef =>
              /\ status = "ok"
              /\ declarations[2] =
                    GlobalVar(Ty("Int"), "n", Some(SizeOf(Named("Typedef", "MyInt"))))
        /\ input \in {Src_sizeof_identifier, Src_sizeof_expr, Src_sizeof_unary} =>
              status = "ok" /\ declarations = GlobalN(Null)
        /\ input = Src_sizeof_deref =>
              /\ status = "ok"
              /\ declarations = GlobalN(Binary("Add", Null, IntLiteral(1)))

C15_Witness ==
    /\ input = Src_sizeof_struct_node
    /\ status = "ok"
    /\ declarations[1].init.v = SizeOf(Named("Struct", "Node"))

\* C16: the postfix loop wraps the expression built so far in [index],
\* .member, ->member, ++ and -- from left to right and stops at the first
\* other token; '.' or '->' without an identifier after it is an error.
C16_PostfixLoop ==
    Done =>
        /\ input = Src_postfix_chain =>
              /\ status = "ok"
              /\ declarations = GlobalN(
                    Unary("PostIncrement",
                          PointerMemberAccess(
                              MemberAccess(ArrayAccess(Identifier("a"), Identifier("i")),
                                           "m"),
                              "n")))
        /\ input = Src_postfix_post_then_index =>
              /\ status = "ok"
              /\ declarations = GlobalN(
                    MemberAccess(ArrayAccess(Unary("PostDecrement", Identifier("a")),
                                             IntLiteral(1)),
                                 "m"))
        /\ input = Src_postfix_stop =>
              /\ status = "ok"
              /\ declarations = GlobalN(
                    Binary("Add", ArrayAccess(Identifier("a"), Identifier("i")),
                                  MemberAccess(Identifier("b"), "m")))
        /\ input = Src_postfix_dot_error =>
              /\ status = "err"
              /\ error = ErrGot("Expected identifier after '.'", Tk("Semicolon"))
        /\ input = Src_postfix_arrow_error =>
              /\ status = "err"
              /\ error = ErrGot("Expected identifier after '->'", current_token(pos))
              /\ current_token(pos).t = "IntLiteral"

C16_Witness ==
    /\ input = Src_postfix_chain
    /\ status = "ok"
    /\ declarations[1].init.v.k = "Unary"
    /\ declarations[1].init.v.operand.k = "PointerMemberAccess"

\* C17: each prefix operator -, !, ~, *, &, ++, -- takes the next unary
\* expression as its operand, so prefix operators nest right to left and
\* bind looser than postfix operators; prefix ++/-- are PreIncrement and
\* PreDecrement, trailing ++/-- are PostIncrement and PostDecrement, and
\* `*p = 100` is Assignment{Unary{Deref, p}, 100}.
C17_PrefixUnary ==
    Done =>
        /\ \A i, j \in DOMAIN PrefixOps :
              input = PrefixSrc(i, j) =>
                  /\ status = "ok"
                  /\ declarations = GlobalN(
                        Unary(PrefixOps[i].op, Unary(PrefixOps[j].op, Identifier("x"))))
        /\ input = Src_prefix_dec_deref =>
              /\ status = "ok"
              /\ declarations = GlobalN(
                    Unary("PreDecrement", Unary("Deref", Identifier("p"))))
        /\ input = Src_prefix_deref_post =>
              /\ status = "ok"
              /\ declarations = GlobalN(
                    Unary("Deref", Unary("PostIncrement", Identifier("p"))))
        /\ input = Src_prefix_deref_assign =>
              /\ status = "ok"
              /\ declarations = FunctionOf(
                    Assignment(Unary("Deref", Identifier("p")), IntLiteral(100)))
        /\ input = Src_prefix_chain =>
              /\ status = "ok"
              /\ declarations = GlobalN(
                    Unary("Neg", Unary("Not", Unary("BitNot",
                        Unary("AddressOf", Identifier("x"))))))
        /\ input = Src_prefix_pre_post =>
              /\ status = "ok"
              /\ declarations = GlobalN(
                    Unary("PreIncrement", Unary("PostDecrement", Identifier("x"))))

C17_Witness ==
    /\ input = Src_prefix_deref_post
    /\ status = "ok"
    /\ declarations[1].init.v.op = "Deref"
    /\ declarations[1].init.v.operand.op = "PostIncrement"

(***************************************************************************)
(* Type specifiers                                                         *)
(***************************************************************************)
\* the type the resolution order gives a run, read off the specifiers written
RunType(run) ==
    LET tags == {SpecifierWords[run[i]].tag : i \in DOMAIN run}
        bases == {i \in DOMAIN run : SpecifierWords[run[i]].base.some}
        last == CHOOSE i \in bases : \A j \in bases : j <= i
        sign(u, s, n) == IF "Unsigned" \in tags THEN Ty(u)
                         ELSE IF "Signed" \in tags THEN Ty(s)
                         ELSE Ty(n)
    IN  IF bases # {} THEN SpecifierWords[run[last]].base.v
        ELSE IF "Char" \in tags THEN sign("UnsignedChar", "SignedChar", "Char")
        ELSE IF "Double" \in tags THEN Ty("Double")
        ELSE IF "Float" \in tags THEN Ty("Float")
        ELSE IF "Void" \in tags THEN Ty("Void")
        ELSE IF "Short" \in tags THEN sign("UnsignedShort", "Short", "Short")
        ELSE IF "Long" \in tags THEN sign("UnsignedLong", "Long", "Long")
        ELSE sign("UnsignedInt", "SignedInt", "Int")

\* the specifiers written first in a text of specifiers, each followed by a
\* blank
RECURSIVE RunOfText(_)
RunOfText(text) ==
    IF text = <<>> THEN <<>>
    ELSE LET w == CHOOSE i \in DOMAIN SpecifierWords :
                      /\ Len(SpecifierWords[i].src) < Len(text)
                      /\ SubSeq(text, 1, Len(SpecifierWords[i].src) + 1) =
                             SpecifierWords[i].src \o <<" ">>
         IN  <<w>> \o RunOfText(SubSeq(text, Len(SpecifierWords[w].src) + 2, Len(text)))

\* the run written between `sizeof(` and `);` in the input
InputRun ==
    LET lparen == CHOOSE i \in DOMAIN input : input[i] = "("
    IN  RunOfText(SubSeq(input, lparen + 1, Len(input) - 2))

\* C18: the type of a run of specifiers: a struct/union/enum/typedef base
\* wins over the keywords; otherwise char (UnsignedChar, SignedChar, Char by
\* the sign flags), then double, then float, then void; otherwise the integer
\* family with short before long, and the sign flags applied to it last.
C18_SpecifierResolution ==
    Done =>
        /\ InputRun \in SpecifierRuns
        /\ input = RunSrc(InputRun)
        /\ status = "ok"
        /\ declarations[Len(declarations)] =
              GlobalVar(Ty("Int"), "n", Some(SizeOf(RunType(InputRun))))

C18_Witness ==
    /\ input = RunSrc(<<7, 6, 5>>)
    /\ status = "ok"
    /\ declarations = GlobalN(SizeOf(Ty("UnsignedShort")))

\* an Identifier token that is not a typedef name
PlainIdentifier(i) ==
    current_token(i).t = "Identifier" /\ current_token(i).s \notin typedef_names

AggregateKeywords == {"Struct", "Union", "Enum"}

\* '{' less '}' among the tokens j .. k-1
BraceDepth(j, k) ==
    Cardinality({m \in j..(k - 1) : current_token(m) = Tk("LBrace")})
        - Cardinality({m \in j..(k - 1) : current_token(m) = Tk("RBrace")})

\* token i lies in the body of an anonymous struct/union/enum that a
\* parse_type started at p0 skips whole
InSkippedBody(p0, i) ==
    \E j \in (p0 + 1)..(i - 1) :
        /\ current_token(j) = Tk("LBrace")
        /\ current_token(j - 1).t \in AggregateKeywords
        /\ \A k \in (j + 1)..i : BraceDepth(j, k) > 0

\* the tag directly after struct/union/enum
IsTag(p0, i) == i > p0 /\ current_token(i - 1).t \in AggregateKeywords

\* C19 as stated: parse_type, started at any token, consumes no identifier
\* outside the typedef set other than the tag directly after
\* struct/union/enum.
C19_NoPlainIdentifierConsumed ==
    status = "parsing" =>
        \A p0 \in 0..(Len(tokens) - 1) :
            LET r == call("parse_type", <<p0, typedef_names>>)
            IN  \A i \in p0..(r.pos - 1) : PlainIdentifier(i) => IsTag(p0, i)

\* C19: parse_type, started at any token, consumes no identifier outside the
\* typedef set other than the tag directly after struct/union/enum and the
\* tokens of an anonymous struct/union/enum body, which is skipped whole; the
\* specifier run ends on such an identifier, and when nothing but storage
\* classes came before it the call fails with 'Expected type' carrying it.
C19_PlainIdentifierEndsRun ==
    /\ status = "parsing" =>
          \A p0 \in 0..(Len(tokens) - 1) :
              LET r == call("parse_type", <<p0, typedef_names>>)
                  p == skip_storage_class(p0)
              IN  /\ \A i \in p0..(r.pos - 1) :
                        PlainIdentifier(i) => IsTag(p0, i) \/ InSkippedBody(p0, i)
                  /\ PlainIdentifier(p) =>
                        r = Err(ErrGot("Expected type", current_token(p)), p)
    /\ Done =>
          /\ input = Src_ident_not_type =>
                /\ status = "err" /\ pos = 0
                /\ error = ErrGot("Expected type", TkIdentifier("T"))
          /\ input = Src_ident_after_storage =>
                /\ status = "err" /\ pos = 1
                /\ error = ErrGot("Expected type", TkIdentifier("y"))
          /\ input = Src_ident_after_specifier =>
                /\ status = "ok"
                /\ declarations = <<GlobalVar(Ty("UnsignedInt"), "x", None)>>
          /\ input = Src_ident_after_typedef =>
                /\ status = "ok"
                /\ declarations[2] = GlobalVar(Named("Typedef", "T"), "U", None)

C19_Witness ==
    /\ input = Src_ident_not_type
    /\ status = "err"
    /\ pos = 0
    /\ error = ErrGot("Expected type", TkIdentifier("T"))

(***************************************************************************)
(* Statements                                                              *)
(***************************************************************************)
\* the last declaration is a function whose body is one VarDecl of v
BodyDeclaresV ==
    LET d == declarations[Len(declarations)]
    IN  /\ d.k = "Function"
        /\ Len(d.body) = 1
        /\ d.body[1].k = "VarDecl"
        /\ d.body[1].name = "v"

\* C20: a statement that starts with a type keyword (int, char, float,
\* double, void, long, short, unsigned, signed), a qualifier, a storage class
\* (static, extern, auto, register), struct/union/enum or a typedef name is
\* parsed as a variable declaration.
C20_TypeTokenStartsVarDecl ==
    (Done /\ input \in LocalDeclFamily \cup {Src_local_typedef_decl}) =>
        status = "ok" /\ BodyDeclaresV

\* the body of the function that is the last declaration
LastBody == declarations[Len(declarations)].body

\* C21: a local declaration with two or more declarators is a Block of their
\* VarDecls in source order, each with its own initializer, and with one
\* declarator a bare VarDecl, whether a type keyword or a typedef name
\* starts it: `T a, b;` is Block[VarDecl a, VarDecl b].
C21_DeclaratorsFoldIntoBlock ==
    Done =>
        /\ input = Src_local_one =>
              /\ status = "ok"
              /\ LastBody = <<VarDecl(Ty("Int"), "a", Some(IntLiteral(1)))>>
        /\ input = Src_local_two =>
              /\ status = "ok"
              /\ LastBody = <<Block(<<VarDecl(Ty("Int"), "a", None),
                                      VarDecl(Ty("Int"), "b", None)>>)>>
        /\ input = Src_local_three_init =>
              /\ status = "ok"
              /\ LastBody = <<Block(<<VarDecl(Ty("Int"), "a", Some(IntLiteral(1))),
                                      VarDecl(Ty("Int"), "b", None),
                                      VarDecl(Ty("Int"), "c", Some(IntLiteral(2)))>>)>>
        /\ input = Src_local_typedef_decl =>
              /\ status = "ok"
              /\ LastBody = <<VarDecl(Named("Typedef", "T"), "v", None)>>
        /\ input = Src_local_typedef_two =>
              /\ status = "ok"
              /\ LastBody = <<Block(<<VarDecl(Named("Typedef", "T"), "a", None),
                                      VarDecl(Named("Typedef", "T"), "b", None)>>)>>

(***************************************************************************)
(* Declarators and top-level declarations                                  *)
(***************************************************************************)
\* C22: a trailing `...` ends the parameter scan and adds no parameter:
\* `int f(int a, ...);`, tokenized and parsed, is the function f with the
\* parameter types [Int], as `int f(int a);` is.
C22_EllipsisEndsParameters ==
    (Done /\ input \in VariadicScenarios) =>
        /\ status = "ok"
        /\ Len(declarations) = 1
        /\ declarations[1].k = "Function"
        /\ declarations[1].name = "f"
        /\ Len(declarations[1].params) = 1
        /\ declarations[1].return_type = Ty("Int")

(***************************************************************************)
(* The binary-operator ladder                                              *)
(***************************************************************************)
\* the operator written at character `at` of the input, followed by a blank
OpAt(at) ==
    CHOOSE i \in DOMAIN LadderOps :
        SubSeq(input, at, at + Len(LadderOps[i].src)) = LadderOps[i].src \o <<" ">>

\* the two operators of `int n = a <op> b <op> c;`
FirstOp == OpAt(Len(Src_ladder_head) + 1)

SecondOp == OpAt(Len(Src_ladder_head) + Len(LadderOps[FirstOp].src) + 4)

\* C23: the ladder binds, from loosest to tightest, && and || (one level), |,
\* ^, &, the equality and relational operators (one level), the shifts, the
\* additive and the multiplicative operators, and every level is
\* left-associative: in `a op1 b op2 c` the second operator takes b only
\* when it binds tighter than the first, else it takes `a op1 b`.
C23_BinaryLadder ==
    Done =>
        LET o1 == LadderOps[FirstOp]
            o2 == LadderOps[SecondOp]
            a == Identifier("a")
            b == Identifier("b")
            c == Identifier("c")
        IN  /\ input = LadderSrc(FirstOp, SecondOp)
            /\ status = "ok"
            /\ declarations = GlobalN(
                  IF o2.level > o1.level
                  THEN Binary(o1.op, a, Binary(o2.op, b, c))
                  ELSE Binary(o2.op, Binary(o1.op, a, b), c))

\* a || b && c is Binary{And, Binary{Or, a, b}, c}
C23_Witness ==
    /\ input = LadderSrc(2, 1)
    /\ status = "ok"
    /\ declarations =
          GlobalN(Binary("And", Binary("Or", Identifier("a"), Identifier("b")),
                         Identifier("c")))

(***************************************************************************)
(* The tokenizer                                                           *)
(***************************************************************************)
\* the operators written with the characters of OpAlphabet, and their tokens
OperatorTable ==
    {[src |-> <<"<">>, tag |-> "Lt"],
     [src |-> <<"<", "=">>, tag |-> "Le"],
     [src |-> <<"<", "<">>, tag |-> "LeftShift"],
     [src |-> <<"<", "<", "=">>, tag |-> "LeftShiftAssign"],
     [src |-> <<">">>, tag |-> "Gt"],
     [src |-> <<">", "=">>, tag |-> "Ge"],
     [src |-> <<">", ">">>, tag |-> "RightShift"],
     [src |-> <<">", ">", "=">>, tag |-> "RightShiftAssign"],
     [src |-> <<"+">>, tag |-> "Plus"],
     [src |-> <<"+", "+">>, tag |-> "Increment"],
     [src |-> <<"+", "=">>, tag |-> "PlusAssign"],
     [src |-> <<"-">>, tag |-> "Minus"],
     [src |-> <<"-", "-">>, tag |-> "Decrement"],
     [src |-> <<"-", "=">>, tag |-> "MinusAssign"],
     [src |-> <<"-", ">">>, tag |-> "Arrow"],
     [src |-> <<"&">>, tag |-> "Ampersand"],
     [src |-> <<"&", "&">>, tag |-> "And"],
     [src |-> <<"&", "=">>, tag |-> "AndAssign"],
     [src |-> <<"|">>, tag |-> "BitOr"],
     [src |-> <<"|", "|">>, tag |-> "Or"],
     [src |-> <<"|", "=">>, tag |-> "OrAssign"],
     [src |-> <<"=">>, tag |-> "Assign"],
     [src |-> <<"=", "=">>, tag |-> "Eq"],
     [src |-> <<"!">>, tag |-> "Not"],
     [src |-> <<"!", "=">>, tag |-> "Ne"]}

\* the operators of the table written at character s + 1 of the input
OperatorsAt(s) ==
    {o \in OperatorTable :
        s + Len(o.src) <= Len(input) /\ SubSeq(input, s + 1, s + Len(o.src)) = o.src}

\* the longest of them
LongestOperatorAt(s) ==
    CHOOSE o \in OperatorsAt(s) : \A q \in OperatorsAt(s) : Len(q.src) <= Len(o.src)

\* C24: the tokenizer emits the longest operator that matches at the current
\* position and consumes exactly its characters: the token pushed last, when
\* it starts with an operator character, is the longest operator written
\* there and Lexer.pos is just after it; `a<<=b` is Identifier,
\* LeftShiftAssign, Identifier and `a+++b` Identifier, Increment, Plus,
\* Identifier.
C24_LongestOperator ==
    /\ (status = "lexing" /\ tokens # <<>>) =>
          LET s == starts[Len(starts)]
          IN  OperatorsAt(s) # {} =>
                  /\ tokens[Len(tokens)] = Tk(LongestOperatorAt(s).tag)
                  /\ lex_pos = s + Len(LongestOperatorAt(s).src)
    /\ (status # "lexing" /\ input = Src_shift_assign) =>
          tokens = <<TkIdentifier("a"), Tk("LeftShiftAssign"), TkIdentifier("b"), Eof>>
    /\ (status # "lexing" /\ input = Src_plus_plus_plus) =>
          tokens = <<TkIdentifier("a"), Tk("Increment"), Tk("Plus"),
                     TkIdentifier("b"), Eof>>

C24_Witness ==
    /\ input = Src_shift_assign
    /\ status = "lexing"
    /\ tokens = <<TkIdentifier("a"), Tk("LeftShiftAssign")>>
    /\ lex_pos = 4

\* C25: string literals and character literals decode backslash escapes:
\* \n, \t, \\ and \" become newline, tab, backslash and double quote, any
\* other escaped character is itself; the character literal '\n' is the one
\* token CharLiteral(newline) and "a\tb" is StringLiteral(a, tab, b).
C25_EscapesDecoded ==
    status # "lexing" =>
        /\ input = Src_string_escape => tokens = <<TkStringLiteral("a\tb"), Eof>>
        /\ input = Src_string_escapes => tokens = <<TkStringLiteral("\n\\\"q"), Eof>>
        /\ input = Src_char_escape => tokens = <<TkCharLiteral("\n"), Eof>>

\* C26: every maximal digit run is decoded into one numeric token and
\* tokenization goes on: an IntLiteral with the decimal value of a run
\* without a point, a FloatLiteral for a run with one point, whatever the
\* length and the value of the run, 2147483648 included.
C26_DigitRunsDecoded ==
    /\ status # "panic"
    /\ status # "lexing" =>
          /\ input = Src_int_max => tokens = <<TkIntLiteral(I32Max), Eof>>
          /\ input = Src_int_small =>
                tokens = <<TkIdentifier("x"), Tk("Assign"), TkIntLiteral(42),
                           Tk("Semicolon"), Eof>>
          /\ input = Src_float =>
                tokens = <<TkIdentifier("x"), Tk("Assign"),
                           TkFloatLiteral([whole |-> 3, frac |-> <<"2", "5">>]),
                           Tk("Semicolon"), Eof>>

C28_StarsSharedByDeclarators ==
    Done =>
        /\ input = Src_local_star_two =>
              /\ status = "ok"
              /\ LastBody = <<Block(<<VarDecl(Pointer(Ty("Int")), "a", None),
                                      VarDecl(Pointer(Ty("Int")), "b", None)>>)>>
        /\ input = Src_local_star_three =>
              /\ status = "ok"
              /\ LastBody =
                    <<Block(<<VarDecl(Pointer(Pointer(Ty("Char"))), "a", None),
                              VarDecl(Pointer(Pointer(Ty("Char"))), "b", None),
                              VarDecl(Pointer(Pointer(Pointer(Ty("Char")))), "c", None)>>)>>
        /\ input = Src_local_no_star =>
              /\ status = "ok"
              /\ LastBody = <<Block(<<VarDecl(Ty("Int"), "a", None),
                                      VarDecl(Pointer(Ty("Int")), "b", None)>>)>>

C28_Witness ==
    /\ input = Src_local_star_two
    /\ status = "ok"
    /\ LastBody[1].stmts[2] = VarDecl(Pointer(Ty("Int")), "b", None)

\* C29: a top-level variable declaration with several declarators adds one
\* GlobalVar to the program, the first declarator with its initializer; the
\* later declarators and their initializers are consumed and appear nowhere,
\* and the parse succeeds.
C29_FirstGlobalDeclaratorOnly ==
    Done =>
        /\ input = Src_global_two =>
              /\ status = "ok"
              /\ declarations = <<GlobalVar(Ty("Int"), "a", Some(IntLiteral(1)))>>
              /\ pos = Len(tokens) - 1
        /\ input = Src_global_three =>
              /\ status = "ok"
              /\ declarations = <<GlobalVar(Ty("Int"), "a", None),
                                  GlobalVar(Ty("Int"), "d", None)>>

C29_Witness ==
    /\ input = Src_global_two
    /\ status = "ok"
    /\ Len(declarations) = 1
    /\ declarations[1].name = "a"

(***************************************************************************)
(* Skipped brace blocks                                                    *)
(***************************************************************************)
\* the positions after token p where as many '}' as '{' have been passed
\* since the '{' at p
ClosedAfter(p) == {k \in (p + 1)..(Len(tokens) - 1) : BraceDepth(p, k) = 0}

\* the position just after the '}' that matches the '{' at p, or that of Eof
\* when there is none
MatchEnd(p) ==
    IF ClosedAfter(p) = {} THEN Len(tokens) - 1
    ELSE CHOOSE k \in ClosedAfter(p) : \A m \in ClosedAfter(p) : k <= m

\* C30: skip_brace_block leaves the position just after the '}' that matches
\* its '{', nested braces counted, and returns Ok at Eof when the input ends
\* first; yet a program in which a skipped block (anonymous aggregate body,
\* aggregate initializer, compound literal, statement expression, switch
\* body) is not closed is never parsed with Ok, since a token required after
\* the block is missing.
C30_UnclosedSkippedBlockFails ==
    /\ status = "parsing" =>
          \A p \in 0..(Len(tokens) - 1) :
              current_token(p) = Tk("LBrace") =>
                  call("skip_brace_block", <<p>>) = Ok(Unit, MatchEnd(p))
    /\ (Done /\ input \in CutFamily) => status = "err"
    /\ (Done /\ input \in SkipFamily) => status = "ok"

\* `int a = { 1, { 2 }` has failed at the end of the input
C30_Witness ==
    /\ input = SubSeq(SkippedBlocks[1].src, 1, 18)
    /\ status = "err"
    /\ pos = Len(tokens) - 1
    /\ error = ErrExpected(Tk("Semicolon"), Eof)

====
